---- MODULE Spec2Model ----
(***************************************************************************)
(* Model of the 8004 facilitator: the key-value store with its durable     *)
(* backend and in-memory fallback (RedisStore), the registration service   *)
(* (registerAgent), the two callers that write the registration ledger    *)
(* (the settlement hook, register, and POST /register), and the feedback   *)
(* token issuer with its token store.                                      *)
(*                                                                         *)
(* Spec         : the registration system, requests interleaved at awaits. *)
(* SpecStore    : the key-value store driven directly, with a clock.       *)
(* SpecRegister : one registration, over all configurations and inputs.    *)
(* SpecMetadata : one metadata value through registerAgent's encoding.     *)
(* SpecIssuer   : generateFeedbackAuth called twice with equal arguments.  *)
(* SpecFeedback : two issuances for clients, and lookups of the tokens.    *)
(***************************************************************************)
EXTENDS Integers, Sequences, FiniteSets, TLC

VARIABLES
    env,        \* process.env as read by config/env.ts
    store,      \* the RedisStore instance (agentAddressStore)
    now,        \* Date.now(), in milliseconds
    last,       \* the store operation that ran last (history)
    allFailed,  \* history: every durable-backend call so far has failed
    pc,         \* per request: where the handler is suspended
    req,        \* per request: its input
    res,        \* per request: registerAgent's RegisterResult
    out,        \* per request: what the handler finally did / answered
    calls,      \* per request: the chain calls it made, in order (history)
    sent,       \* per request: the transactions the chain accepted from it
    nextAgentId, \* the identity registry's next token id (on chain)
    fb,         \* per feedback-token issuance: where it is and what it holds
    feedbackAuthStore, \* the Map of issued feedback tokens, by client address
    md          \* a metadata entry on its way through registerAgent's encoding

vars == <<env, store, now, last, allFailed, pc, req, res, out, calls, sent, nextAgentId,
          fb, feedbackAuthStore, md>>
storeVars == <<store, now, last, allFailed>>
regVars == <<pc, req, res, out, calls, sent, nextAgentId>>
auxVars == <<fb, feedbackAuthStore, md>>

NULL == "null"

----------------------------------------------------------------------------
(* Bounds of the model *)

\* number of requests (settlement hooks and POST /register calls) in flight
NumProcs == 2
\* longest log list of a receipt
MaxLogs == 1
\* clock steps of SpecStore
MaxTicks == 3
\* largest TTL, in seconds, passed to set
MaxTtl == 2

Procs == 1..NumProcs

----------------------------------------------------------------------------
(* Strings with letter case: an address is a tuple of characters *)

LowerChar(c) ==
    CASE c = "A" -> "a"
      [] c = "B" -> "b"
      [] c = "C" -> "c"
      [] c = "D" -> "d"
      [] c = "E" -> "e"
      [] c = "F" -> "f"
      [] OTHER -> c

toLowerCase(s) == [i \in DOMAIN s |-> LowerChar(s[i])]

Digit == <<"0", "1", "2", "3", "4", "5", "6", "7", "8", "9">>

\* bigint.toString(): the decimal digits
RECURSIVE toString(_)
toString(n) ==
    IF n < 10 THEN Digit[n + 1] ELSE toString(n \div 10) \o Digit[(n % 10) + 1]

----------------------------------------------------------------------------
(* Addresses and chains of the configuration (abbreviated to a few characters,
   letter case kept as in the source); <<>> is a missing address *)

ChainSepolia == 11155111
ChainBaseSepolia == 84532
ChainBase == 8453
ChainMainnet == 1
\* the local development chain (anvil): no registry is deployed by default
ChainAnvil == 31337

\* DELEGATE_CONTRACT_DEFAULTS: checksummed, mixed-case addresses
DelegateSepolia == <<"E", "C", "4", "b">>
DelegateBase == <<"d", "D", "0", "6">>
DelegateEnv == <<"F", "a", "1", "1">>
DELEGATE_CONTRACT_DEFAULTS ==
    [c \in {ChainSepolia, ChainBase} |->
        IF c = ChainSepolia THEN DelegateSepolia ELSE DelegateBase]

RegistrySepolia == <<"8", "0", "0", "4", "A", "8">>
RegistryMainnet == <<"8", "0", "0", "4", "A", "1">>
RegistryEnv == <<"8", "0", "0", "4", "e", "e">>
ForeignContract == <<"b", "A", "d">>
ZeroAddress == <<"0", "0">>
NoAddress == <<>>

AgentMixed == <<"A", "g", "1">>
AgentOther == <<"b", "0", "b">>

----------------------------------------------------------------------------
(* RedisStore: a durable backend with an in-memory fallback.
   A map entry is a record; value = NULL is "no entry"; expiresAt = 0 is
   "no expiry" (the code tests expiresAt and ttlSeconds for truthiness, so
   undefined and 0 are the same to it). *)

StoreKeys == {toLowerCase(AgentMixed)}
StoreVals == {toString(n) : n \in 0..(NumProcs + 1)}

NoEntry == [value |-> NULL, expiresAt |-> 0]

\* JSON.stringify / JSON.parse of a stored string
Serialize(v) == "\"" \o v \o "\""
Serialized == {Serialize(v) : v \in StoreVals}
ParseTable == [s \in Serialized |-> CHOOSE v \in StoreVals : Serialize(v) = s]
Parse(s) == ParseTable[s]

\* the store as the constructor leaves it
NewStore(redisUrl) ==
    [useRedis |-> redisUrl # NULL,
     redis    |-> [k \in StoreKeys |-> NoEntry],
     mem      |-> [k \in StoreKeys |-> NoEntry]]

\* what the backend answers to GET: nil once the key's TTL has run out
RedisValue(st, key, t) ==
    LET e == st.redis[key] IN
    IF e.value = NULL THEN NULL
    ELSE IF e.expiresAt # 0 /\ e.expiresAt < t THEN NULL
    ELSE e.value

getFromMemoryKeepsExpired(st, key, t) ==
    LET entry == st.mem[key] IN
    IF entry.value = NULL THEN [ret |-> NULL, st |-> st]
    ELSE IF entry.expiresAt # 0 /\ entry.expiresAt < t
         THEN [ret |-> NULL, st |-> st]
         ELSE [ret |-> entry.value, st |-> st]

getFromMemory(st, key, t) ==
    LET entry == st.mem[key] IN
    IF entry.value = NULL THEN [ret |-> NULL, st |-> st]
    ELSE IF entry.expiresAt # 0 /\ entry.expiresAt < t
         THEN [ret |-> NULL, st |-> [st EXCEPT !.mem[key] = NoEntry]]
         ELSE [ret |-> entry.value, st |-> st]

\* get; fail = the backend call throws
storeGet(st, key, fail, t) ==
    IF st.useRedis
    THEN IF fail
         THEN getFromMemory(st, key, t) @@ [threw |-> FALSE, mem |-> TRUE]
         ELSE LET value == RedisValue(st, key, t) IN
              [ret |-> IF value = NULL THEN NULL ELSE Parse(value),
               st |-> st, threw |-> FALSE, mem |-> FALSE]
    ELSE getFromMemory(st, key, t) @@ [threw |-> FALSE, mem |-> TRUE]

cleanupExpired(m, t) ==
    [k \in DOMAIN m |->
        IF m[k].expiresAt # 0 /\ m[k].expiresAt < t THEN NoEntry ELSE m[k]]

MemSize(m) == Cardinality({k \in DOMAIN m : m[k].value # NULL})

NewEntry(value, ttlSeconds, t) ==
    [value |-> value,
     expiresAt |-> IF ttlSeconds # 0 THEN t + ttlSeconds * 1000 ELSE 0]

storeSetNoFallback(st, key, value, ttlSeconds, fail, t) ==
    IF st.useRedis
    THEN [st |-> IF fail THEN st
                 ELSE [st EXCEPT !.redis[key] =
                          NewEntry(Serialize(value), ttlSeconds, t)],
          threw |-> FALSE, mem |-> FALSE]
    ELSE [st |-> [st EXCEPT !.mem[key] = NewEntry(value, ttlSeconds, t)],
          threw |-> FALSE, mem |-> TRUE]

\* set; ttlSeconds = 0 also stands for an omitted TTL
storeSet(st, key, value, ttlSeconds, fail, t) ==
    LET serialized == Serialize(value) IN
    IF st.useRedis /\ ~fail
    THEN [st |-> [st EXCEPT !.redis[key] = NewEntry(serialized, ttlSeconds, t)],
          threw |-> FALSE, mem |-> FALSE]
    ELSE LET m1 == [st.mem EXCEPT ![key] = NewEntry(value, ttlSeconds, t)]
             m2 == IF MemSize(m1) % 1000 = 0 THEN cleanupExpired(m1, t) ELSE m1
         IN [st |-> [st EXCEPT !.mem = m2], threw |-> FALSE, mem |-> TRUE]

hasInMemory(st, key, t) ==
    LET entry == st.mem[key] IN
    IF entry.value = NULL THEN [ret |-> "false", st |-> st]
    ELSE IF entry.expiresAt # 0 /\ entry.expiresAt < t
         THEN [ret |-> "false", st |-> [st EXCEPT !.mem[key] = NoEntry]]
         ELSE [ret |-> "true", st |-> st]

storeHas(st, key, fail, t) ==
    IF st.useRedis /\ ~fail
    THEN [ret |-> IF RedisValue(st, key, t) # NULL THEN "true" ELSE "false",
          st |-> st, threw |-> FALSE, mem |-> FALSE]
    ELSE hasInMemory(st, key, t) @@ [threw |-> FALSE, mem |-> TRUE]

storeDelete(st, key, fail) ==
    IF st.useRedis /\ ~fail
    THEN [st |-> [st EXCEPT !.redis[key] = NoEntry], threw |-> FALSE, mem |-> FALSE]
    ELSE [st |-> [st EXCEPT !.mem[key] = NoEntry], threw |-> FALSE, mem |-> TRUE]

\* the outcomes of one backend call: it can only fail when the backend is used
Fails(st) == IF st.useRedis THEN BOOLEAN ELSE {FALSE}

----------------------------------------------------------------------------
(* The store driven directly: SpecStore *)

\* history of the store's use: the operation that ran last, with what it
\* answered (ret), whether memory served it (mem), the memory entry it found
\* (entry) and, when the operation just before it was a set of the same key,
\* the value that set wrote (justSet)
NoEvent == [op |-> "none", key |-> NoAddress, val |-> NULL, ttl |-> 0,
            ret |-> NULL, threw |-> FALSE, mem |-> FALSE, entry |-> NoEntry,
            justSet |-> NULL]

Event(op, key, val, ttl, r, entry) ==
    [op |-> op, key |-> key, val |-> val, ttl |-> ttl, ret |-> r.ret,
     threw |-> r.threw, mem |-> r.mem, entry |-> entry,
     justSet |-> IF last.op = "set" /\ last.key = key THEN last.val ELSE NULL]

\* history of the backend: a call that answered ends "every call failed"
Backend(fail) ==
    allFailed' = (allFailed /\ (fail \/ ~store.useRedis))

Get(k) ==
    \E fail \in Fails(store) :
        LET r == storeGet(store, k, fail, now) IN
        /\ store' = r.st
        /\ last' = Event("get", k, NULL, 0, r, store.mem[k])
        /\ Backend(fail)
        /\ UNCHANGED <<env, auxVars, now, regVars>>

Set(k, v, ttl) ==
    \E fail \in Fails(store) :
        LET r == storeSet(store, k, v, ttl, fail, now) IN
        /\ store' = r.st
        /\ last' = Event("set", k, v, ttl, r @@ [ret |-> NULL], store.mem[k])
        /\ Backend(fail)
        /\ UNCHANGED <<env, auxVars, now, regVars>>

Has(k) ==
    \E fail \in Fails(store) :
        LET r == storeHas(store, k, fail, now) IN
        /\ store' = r.st
        /\ last' = Event("has", k, NULL, 0, r, store.mem[k])
        /\ Backend(fail)
        /\ UNCHANGED <<env, auxVars, now, regVars>>

Delete(k) ==
    \E fail \in Fails(store) :
        LET r == storeDelete(store, k, fail) IN
        /\ store' = r.st
        /\ last' = Event("delete", k, NULL, 0, r @@ [ret |-> NULL], store.mem[k])
        /\ Backend(fail)
        /\ UNCHANGED <<env, auxVars, now, regVars>>

\* redis.connect() rejects: the store turns the backend off for good. It can
\* only reject while no backend call has answered yet.
ConnectFail ==
    /\ store.useRedis
    /\ allFailed
    /\ store' = [store EXCEPT !.useRedis = FALSE]
    /\ UNCHANGED <<env, auxVars, now, last, allFailed, regVars>>

\* time passes (one second)
Tick ==
    /\ now < MaxTicks * 1000
    /\ now' = now + 1000
    /\ last' = [NoEvent EXCEPT !.op = "tick"]
    /\ UNCHANGED <<env, auxVars, store, allFailed, regVars>>

----------------------------------------------------------------------------
(* Configuration: config/env.ts *)

KnownChainIds == {ChainMainnet, ChainBase, ChainBaseSepolia, ChainSepolia, ChainAnvil}

\* the CAIP-2 name `eip155:${chainId}`
Caip2 == [c \in KnownChainIds \cup {0} |-> "eip155:" \o toString(c)]
Net(chainId) == Caip2[chainId]
Caip2Names == {Caip2[c] : c \in KnownChainIds}

\* process.env: an unset variable is NULL (a string) or NoAddress (an address)
Envs ==
    [REDIS_URL : {NULL, "redis://cache"},
     ERC8004_NETWORK : {NULL, "sepolia"},
     ERC8004_IDENTITY_REGISTRY_ADDRESS : {NoAddress, RegistryEnv},
     DELEGATE_CONTRACT_ADDRESS : {NoAddress, DelegateEnv}]

normalizeErc8004Network(network) ==
    CASE network \in Caip2Names -> network
      [] network \in {"eth-mainnet", "ethereum", "mainnet"} -> Net(ChainMainnet)
      [] network \in {"eth-sepolia", "sepolia"} -> Net(ChainSepolia)
      [] network \in {"base", "base-mainnet"} -> Net(ChainBase)
      [] network = "base-sepolia" -> Net(ChainBaseSepolia)
      [] OTHER -> network

\* 0 stands for undefined
getChainIdFromNetwork(network) ==
    IF network \in Caip2Names
    THEN CHOOSE c \in KnownChainIds : Caip2[c] = network
    ELSE 0

\* the chain ids getDefaultErc8004Addresses has addresses for
HasRegistryDefault(chainId) ==
    chainId \in {ChainSepolia, ChainBaseSepolia, ChainMainnet, ChainBase}

getDefaultErc8004Addresses(network) ==
    LET chainId == getChainIdFromNetwork(network) IN
    IF chainId = ChainSepolia \/ chainId = ChainBaseSepolia
    THEN [identityRegistry |-> RegistrySepolia]
    ELSE IF chainId = ChainMainnet \/ chainId = ChainBase
         THEN [identityRegistry |-> RegistryMainnet]
         ELSE [identityRegistry |-> RegistrySepolia]

getDefaultErc8004IdentityRegistry(chainId) ==
    getDefaultErc8004Addresses(Net(chainId)).identityRegistry

ERC8004_NETWORK(e) ==
    normalizeErc8004Network(
        IF e.ERC8004_NETWORK # NULL THEN e.ERC8004_NETWORK ELSE Net(ChainBase))

ERC8004_IDENTITY_REGISTRY_ADDRESS(e) ==
    IF e.ERC8004_IDENTITY_REGISTRY_ADDRESS # NoAddress
    THEN e.ERC8004_IDENTITY_REGISTRY_ADDRESS
    ELSE getDefaultErc8004Addresses(ERC8004_NETWORK(e)).identityRegistry

getDelegateContractAddressBackCompat(e, chainId) ==
    IF chainId \in DOMAIN DELEGATE_CONTRACT_DEFAULTS
    THEN DELEGATE_CONTRACT_DEFAULTS[chainId]
    ELSE IF e.DELEGATE_CONTRACT_ADDRESS # NoAddress
         THEN e.DELEGATE_CONTRACT_ADDRESS
         ELSE DELEGATE_CONTRACT_DEFAULTS[ChainBase]

\* envOverride || DELEGATE_CONTRACT_DEFAULTS[chainId] || fallback; the per-chain
\* variables DELEGATE_CONTRACT_ADDRESS_<chainId> are left unset
getDelegateContractAddress(e, chainId) ==
    IF chainId \in DOMAIN DELEGATE_CONTRACT_DEFAULTS
    THEN DELEGATE_CONTRACT_DEFAULTS[chainId]
    ELSE e.DELEGATE_CONTRACT_ADDRESS

\* the chains the lookup can answer for a network identifier; 0 stands for
\* undefined, and the RPC URLs are not local ones. Base and Base Sepolia are
\* resolved by either name. Another CAIP-2 chain id is unknown to this lookup;
\* the lookup that registerAgent imports from utils/network may list more chains
\* (the delegate defaults name Sepolia), so for such an id both answers are kept.
mapX402NetworkToChain(network) ==
    CASE network \in {"base-sepolia", Net(ChainBaseSepolia)} -> {ChainBaseSepolia}
      [] network \in {"base", Net(ChainBase)} -> {ChainBase}
      [] network = Net(ChainAnvil) -> {ChainAnvil}
      [] network \in Caip2Names -> {0, getChainIdFromNetwork(network)}
      [] OTHER -> {0}

\* getErc8004RpcUrl(chainId), as the chain whose endpoint it answers: the
\* built-in endpoints of Sepolia and Base, else ERC8004_RPC_URL, which is the
\* Base mainnet endpoint when unset; the per-chain variables are left unset
getErc8004RpcUrl(chainId) ==
    IF chainId \in {ChainSepolia, ChainBase} THEN chainId ELSE ChainBase

\* the chain registerAgent builds its clients with, once the lookup answered one
ClientChain(info) ==
    CHOOSE c \in mapX402NetworkToChain(
                    IF info.network # NULL THEN info.network
                    ELSE Net(info.authorization.chainId)) : c # 0

\* the chain id registerAgent looks the delegate up for (line 80)
DelegateLookupChain(info) == info.authorization.chainId

----------------------------------------------------------------------------
(* registerAgent: services/registerService.ts *)

NoAuth == [chainId |-> 0, address |-> NoAddress, nonce |-> 0]

NoError == [kind |-> "none", expected |-> NoAddress, got |-> NoAddress, chainId |-> 0]
Error(kind) == [NoError EXCEPT !.kind = kind]

\* RegisterResult; txHash 0 and agentId NULL are "absent"; from is history:
\* the emitter of the log the agent id was decoded from
NoResult ==
    [success |-> FALSE, agentId |-> NULL, txHash |-> 0, error |-> NoError,
     network |-> NULL, from |-> NoAddress, status |-> NULL]

Failure(error, network) == [NoResult EXCEPT !.error = error, !.network = network]

\* the network registerAgent works with
NetworkOf(info) ==
    IF info.network # NULL THEN info.network ELSE Net(info.authorization.chainId)

identityRegistryAddress(e, chainId) ==
    IF ERC8004_IDENTITY_REGISTRY_ADDRESS(e) # NoAddress
    THEN ERC8004_IDENTITY_REGISTRY_ADDRESS(e)
    ELSE getDefaultErc8004IdentityRegistry(chainId)

DelegateOkCaseSensitive(authorization, delegateAddress) ==
    authorization.address = delegateAddress

\* the delegate check of registerAgent, lines 87-95
DelegateOk(authorization, delegateAddress) ==
    toLowerCase(authorization.address) = toLowerCase(delegateAddress)

Mismatch(authorization, delegateAddress) ==
    [kind |-> "mismatch", expected |-> delegateAddress,
     got |-> authorization.address, chainId |-> authorization.chainId]

VerifySkipsComparison(e, info, chain) ==
    LET network == NetworkOf(info)
        delegateAddress == getDelegateContractAddress(e, info.authorization.chainId)
    IN  IF chain = 0 THEN Failure(Error("unsupported"), network)
        ELSE IF delegateAddress = NoAddress THEN Failure(Error("noDelegate"), NULL)
        ELSE NoResult

\* the synchronous head of registerAgent, given what the chain lookup answered:
\* NoResult when it goes on to the chain
Verify(e, info, chain) ==
    LET network == NetworkOf(info)
        delegateAddress == getDelegateContractAddress(e, info.authorization.chainId)
    IN  IF chain = 0 THEN Failure(Error("unsupported"), network)
        ELSE IF delegateAddress = NoAddress THEN Failure(Error("noDelegate"), NULL)
        ELSE IF ~DelegateOk(info.authorization, delegateAddress)
             THEN Failure(Mismatch(info.authorization, delegateAddress), NULL)
             ELSE NoResult

\* receipt logs. A log: who emitted it, the event its topics name, and the
\* event's arguments (from: Transfer only; id: agentId or tokenId)
Log(address, eventName, from, id) ==
    [address |-> address, eventName |-> eventName, from |-> from, id |-> id]

\* the events of identityRegistryAbi
identityRegistryAbiEvents == {"Registered", "Transfer"}

\* decodeEventLog({abi: identityRegistryAbi, data, topics}) throws for a log that
\* is none of the ABI's events; the emitter is not looked at
Decodes(log) == log.eventName \in identityRegistryAbiEvents

IsRegistered(log) == Decodes(log) /\ log.eventName = "Registered"
IsMint(log) == Decodes(log) /\ log.eventName = "Transfer" /\ log.from = ZeroAddress

\* receipt.logs.find(...): the index of the first log that decodes as
\* Registered, 0 when there is none
registeredEvent(logs) ==
    IF \E i \in DOMAIN logs : IsRegistered(logs[i])
    THEN CHOOSE i \in DOMAIN logs :
             IsRegistered(logs[i]) /\ \A j \in 1..(i - 1) : ~IsRegistered(logs[j])
    ELSE 0

\* the index of the first log that decodes as a Transfer from the zero address
transferEvent(logs) ==
    IF \E i \in DOMAIN logs : IsMint(logs[i])
    THEN CHOOSE i \in DOMAIN logs :
             IsMint(logs[i]) /\ \A j \in 1..(i - 1) : ~IsMint(logs[j])
    ELSE 0

\* lines 154-222: the agent id of a receipt and the log it came from
\* (0 = no such log)
DecodeAgentId(logs) ==
    LET r == registeredEvent(logs)
        t == transferEvent(logs)
    IN  IF r # 0 THEN [agentId |-> toString(logs[r].id), from |-> logs[r].address]
        ELSE IF t # 0 THEN [agentId |-> toString(logs[t].id), from |-> logs[t].address]
        ELSE [agentId |-> NULL, from |-> NoAddress]

SuccessNeedsAgentId(network, hash, agentAddress, decoded, status) ==
    [NoResult EXCEPT !.success = (decoded.agentId # NULL), !.network = network,
                     !.txHash = IF decoded.agentId # NULL THEN hash ELSE 0,
                     !.agentId = decoded.agentId, !.from = decoded.from,
                     !.status = status]

\* lines 224-230
Success(network, hash, agentAddress, decoded, status) ==
    [NoResult EXCEPT !.success = TRUE, !.network = network, !.txHash = hash,
                     !.agentId = decoded.agentId, !.from = decoded.from,
                     !.status = status]

----------------------------------------------------------------------------
(* The chain: what a mined registration transaction can leave in its receipt *)

\* logs a transaction can carry when the registry would mint id m
LogsOf(registry, m) ==
    {Log(registry, "Registered", NoAddress, m),
     Log(registry, "Transfer", ZeroAddress, m),
     Log(registry, "Transfer", AgentOther, m),
     Log(registry, "MetadataSet", NoAddress, m),
     Log(ForeignContract, "Registered", NoAddress, 0),
     Log(ForeignContract, "Transfer", ZeroAddress, 0)}

LogLists(registry, m) ==
    UNION {[1..n -> LogsOf(registry, m)] : n \in 0..MaxLogs}

Receipts(registry, m) ==
    {[status |-> "reverted", logs |-> <<>>]} \cup
    {[status |-> "success", logs |-> l] : l \in LogLists(registry, m)}

\* the registry minted m in this transaction
Minted(registry, receipt, m) ==
    \E i \in DOMAIN receipt.logs :
        /\ receipt.logs[i].address = registry
        /\ receipt.logs[i].id = m
        /\ IsRegistered(receipt.logs[i]) \/ IsMint(receipt.logs[i])

----------------------------------------------------------------------------
(* Requests: the settlement hook (register) and POST /register *)

NoRequest ==
    [kind |-> "none", agentAddress |-> NoAddress, authorization |-> NoAuth,
     network |-> NULL, held |-> NULL]

NoOutcome == [what |-> "none", agentId |-> NULL, status |-> 0]
Outcome(what, agentId, status) == [what |-> what, agentId |-> agentId, status |-> status]

\* what a read of the ledger answers while the backend works
LedgerValue(st, key) ==
    IF key \notin StoreKeys THEN NULL
    ELSE IF st.useRedis
         THEN (IF st.redis[key].value = NULL THEN NULL ELSE Parse(st.redis[key].value))
         ELSE st.mem[key].value

\* inputs of the requests
SysAgents == {AgentMixed}
SysAuths ==
    {NoAuth,
     [chainId |-> ChainBase, address |-> toLowerCase(DelegateBase), nonce |-> 0],
     [chainId |-> ChainBase, address |-> DelegateSepolia, nonce |-> 0]}

Info(p) == req[p]

\* register(context) from its call to its first await, the read of the ledger
\* (lines 83-113)
StartRegister(p) ==
    /\ pc[p] = "idle"
    /\ \E payTo \in SysAgents, registerAuth \in SysAuths, extension \in BOOLEAN :
        LET agentAddress == toLowerCase(payTo) IN
        /\ ~extension => registerAuth = NoAuth
        /\ req' = [req EXCEPT ![p] =
                      [kind |-> "hook", agentAddress |-> agentAddress,
                       authorization |-> registerAuth,
                       network |-> Net(ChainBase),
                       held |-> LedgerValue(store, agentAddress)]]
        /\ IF extension
           THEN pc' = [pc EXCEPT ![p] = "hookGet"] /\ out' = out
           ELSE /\ pc' = [pc EXCEPT ![p] = "done"]
                /\ out' = [out EXCEPT ![p] = Outcome("noExtension", NULL, 0)]
    /\ UNCHANGED <<env, storeVars, res, calls, sent, nextAgentId>>

\* onAfterSettle -> register(context), up to its read of the ledger
StartHook(p) ==
    /\ StartRegister(p)
    /\ UNCHANGED auxVars

\* another hook for the same address is between its ledger read and its write
InFlight(p) ==
    \E q \in Procs \ {p} :
        /\ req[q].kind = "hook"
        /\ req[q].agentAddress = req[p].agentAddress
        /\ pc[q] \in {"raEnter", "raNonce", "raSend", "raReceipt", "finish"}

HookGetLocked(p) ==
    /\ pc[p] = "hookGet"
    /\ ~InFlight(p)
    /\ \E fail \in Fails(store) :
        LET r == storeGet(store, req[p].agentAddress, fail, now) IN
        /\ store' = r.st
        /\ IF r.ret # NULL
           THEN /\ pc' = [pc EXCEPT ![p] = "done"]
                /\ out' = [out EXCEPT ![p] = Outcome("skipped", r.ret, 0)]
           ELSE IF req[p].authorization = NoAuth
                THEN /\ pc' = [pc EXCEPT ![p] = "done"]
                     /\ out' = [out EXCEPT ![p] = Outcome("noAuth", NULL, 0)]
                ELSE /\ pc' = [pc EXCEPT ![p] = "raEnter"]
                     /\ out' = out
    /\ UNCHANGED <<env, auxVars, now, last, allFailed, req, res, calls, sent, nextAgentId>>

\* lines 113-125: the ledger read and the two early returns after it
HookGet(p) ==
    /\ pc[p] = "hookGet"
    /\ \E fail \in Fails(store) :
        LET r == storeGet(store, req[p].agentAddress, fail, now) IN
        /\ store' = r.st
        /\ IF r.ret # NULL
           THEN /\ pc' = [pc EXCEPT ![p] = "done"]
                /\ out' = [out EXCEPT ![p] = Outcome("skipped", r.ret, 0)]
           ELSE IF req[p].authorization = NoAuth
                THEN /\ pc' = [pc EXCEPT ![p] = "done"]
                     /\ out' = [out EXCEPT ![p] = Outcome("noAuth", NULL, 0)]
                ELSE /\ pc' = [pc EXCEPT ![p] = "raEnter"]
                     /\ out' = out
    /\ UNCHANGED <<env, auxVars, now, last, allFailed, req, res, calls, sent, nextAgentId>>

\* POST /register up to its call of registerAgent
StartPost(p) ==
    /\ pc[p] = "idle"
    /\ \E agentAddress \in SysAgents \cup {NoAddress}, authorization \in SysAuths,
          x402Version \in {1, 2} :
        /\ req' = [req EXCEPT ![p] =
                      [kind |-> "post", agentAddress |-> agentAddress,
                       authorization |-> authorization,
                       network |-> Net(ChainBase),
                       held |-> LedgerValue(store, toLowerCase(agentAddress))]]
        /\ IF x402Version = 1 /\ (agentAddress = NoAddress \/ authorization = NoAuth)
           THEN /\ pc' = [pc EXCEPT ![p] = "done"]
                /\ out' = [out EXCEPT ![p] = Outcome("invalid", NULL, 400)]
           ELSE IF authorization = NoAuth
                THEN \* reading authorization.chainId throws: the outer catch
                     /\ pc' = [pc EXCEPT ![p] = "done"]
                     /\ out' = [out EXCEPT ![p] = Outcome("threw", NULL, 500)]
                ELSE /\ pc' = [pc EXCEPT ![p] = "raEnter"]
                     /\ out' = out
    /\ UNCHANGED <<env, auxVars, storeVars, res, calls, sent, nextAgentId>>

\* registerAgent, lines 38-95: everything before the first chain call
RaEnter(p) ==
    /\ pc[p] = "raEnter"
    /\ \E chain \in mapX402NetworkToChain(NetworkOf(Info(p))) :
        LET v == Verify(env, Info(p), chain) IN
        IF v = NoResult
        THEN pc' = [pc EXCEPT ![p] = "raNonce"] /\ res' = res
        ELSE pc' = [pc EXCEPT ![p] = "finish"] /\ res' = [res EXCEPT ![p] = v]
    /\ UNCHANGED <<env, auxVars, storeVars, req, out, calls, sent, nextAgentId>>

\* line 107: the transaction count the chain answers for an agent account.
\* The accounts of the model have sent no transaction; the nonce of the
\* authorization is the input that varies.
getTransactionCount(address) == 0

RaNonceStrict(p) ==
    /\ pc[p] = "raNonce"
    /\ calls' = [calls EXCEPT ![p] = Append(@, "getTransactionCount")]
    /\ \E throws \in BOOLEAN :
        /\ req[p].agentAddress = NoAddress => throws
        /\ LET onChainNonce == getTransactionCount(req[p].agentAddress) IN
           IF throws
           THEN /\ pc' = [pc EXCEPT ![p] = "finish"]
                /\ res' = [res EXCEPT ![p] = Failure(Error("chain"), NetworkOf(Info(p)))]
           ELSE IF onChainNonce # req[p].authorization.nonce
                THEN /\ pc' = [pc EXCEPT ![p] = "finish"]
                     /\ res' = [res EXCEPT ![p] =
                                  Failure(Error("nonce"), NetworkOf(Info(p)))]
                ELSE /\ pc' = [pc EXCEPT ![p] = "raSend"]
                     /\ res' = res
    /\ UNCHANGED <<env, auxVars, storeVars, req, out, sent, nextAgentId>>

\* lines 106-111: getTransactionCount; a count that differs from the
\* authorization's nonce only logs a warning
RaNonce(p) ==
    /\ pc[p] = "raNonce"
    /\ calls' = [calls EXCEPT ![p] = Append(@, "getTransactionCount")]
    /\ \E throws \in BOOLEAN :
        /\ req[p].agentAddress = NoAddress => throws
        /\ LET onChainNonce == getTransactionCount(req[p].agentAddress) IN
           IF throws
           THEN /\ pc' = [pc EXCEPT ![p] = "finish"]
                /\ res' = [res EXCEPT ![p] = Failure(Error("chain"), NetworkOf(Info(p)))]
           ELSE /\ pc' = [pc EXCEPT ![p] = "raSend"]
                /\ res' = res
    /\ UNCHANGED <<env, auxVars, storeVars, req, out, sent, nextAgentId>>

TransactionToDelegate(agentAddress, authorization, registry) ==
    [to |-> authorization.address, authorizationList |-> <<authorization>>,
     registry |-> registry]

\* lines 137-141: the transaction handed to sendTransaction; registry is the
\* contract the call data names
Transaction(agentAddress, authorization, registry) ==
    [to |-> agentAddress, authorizationList |-> <<authorization>>,
     registry |-> registry]

\* lines 116-141: encode the call and hand it to sendTransaction
RaSend(p) ==
    /\ pc[p] = "raSend"
    /\ calls' = [calls EXCEPT ![p] = Append(@, "sendTransaction")]
    /\ \E throws \in BOOLEAN :
        IF throws
        THEN /\ pc' = [pc EXCEPT ![p] = "finish"]
             /\ res' = [res EXCEPT ![p] = Failure(Error("chain"), NetworkOf(Info(p)))]
             /\ sent' = sent
        ELSE /\ pc' = [pc EXCEPT ![p] = "raReceipt"]
             /\ res' = res
             /\ sent' = [sent EXCEPT ![p] = Append(@,
                    Transaction(req[p].agentAddress, req[p].authorization,
                                identityRegistryAddress(env, req[p].authorization.chainId)))]
    /\ UNCHANGED <<env, auxVars, storeVars, req, out, nextAgentId>>

\* lines 143-239: wait for the receipt, decode the agent id, build the result
RaReceipt(p) ==
    /\ pc[p] = "raReceipt"
    /\ calls' = [calls EXCEPT ![p] = Append(@, "waitForTransactionReceipt")]
    /\ pc' = [pc EXCEPT ![p] = "finish"]
    /\ LET registry == identityRegistryAddress(env, req[p].authorization.chainId) IN
       \/ /\ res' = [res EXCEPT ![p] = Failure(Error("chain"), NetworkOf(Info(p)))]
          /\ nextAgentId' = nextAgentId
       \/ \E receipt \in Receipts(registry, nextAgentId) :
            /\ res' = [res EXCEPT ![p] =
                   Success(NetworkOf(Info(p)), p, req[p].agentAddress,
                           DecodeAgentId(receipt.logs), receipt.status)]
            /\ nextAgentId' = IF Minted(registry, receipt, nextAgentId)
                              THEN nextAgentId + 1 ELSE nextAgentId
    /\ UNCHANGED <<env, auxVars, storeVars, req, out, sent>>

HookFinishStoresAnyResult(p) ==
    /\ pc[p] = "finish"
    /\ req[p].kind = "hook"
    /\ pc' = [pc EXCEPT ![p] = "done"]
    /\ \E fail \in Fails(store) :
          /\ store' = storeSet(store, toLowerCase(req[p].agentAddress),
                               IF res[p].agentId # NULL THEN res[p].agentId ELSE "0",
                               0, fail, now).st
          /\ out' = [out EXCEPT ![p] = Outcome("stored", res[p].agentId, 0)]
    /\ UNCHANGED <<env, auxVars, now, last, allFailed, req, res, calls, sent, nextAgentId>>

\* register(context), lines 180-203: what the hook does with the result
HookFinish(p) ==
    /\ pc[p] = "finish"
    /\ req[p].kind = "hook"
    /\ pc' = [pc EXCEPT ![p] = "done"]
    /\ IF ~res[p].success
       THEN /\ out' = [out EXCEPT ![p] = Outcome("failed", NULL, 0)]
            /\ store' = store
       ELSE IF res[p].agentId # NULL
            THEN \E fail \in Fails(store) :
                   /\ store' = storeSet(store, toLowerCase(req[p].agentAddress),
                                        res[p].agentId, 0, fail, now).st
                   /\ out' = [out EXCEPT ![p] = Outcome("stored", res[p].agentId, 0)]
            ELSE /\ out' = [out EXCEPT ![p] = Outcome("noId", NULL, 0)]
                 /\ store' = store
    /\ UNCHANGED <<env, auxVars, now, last, allFailed, req, res, calls, sent, nextAgentId>>

\* POST /register, lines 389-406: store the mapping and answer
PostFinish(p) ==
    /\ pc[p] = "finish"
    /\ req[p].kind = "post"
    /\ pc' = [pc EXCEPT ![p] = "done"]
    /\ IF res[p].success /\ res[p].agentId # NULL
       THEN IF req[p].agentAddress # NoAddress
            THEN \E fail \in Fails(store) :
                   /\ store' = storeSet(store, toLowerCase(req[p].agentAddress),
                                        res[p].agentId, 0, fail, now).st
                   /\ out' = [out EXCEPT ![p] = Outcome("stored", res[p].agentId, 200)]
            ELSE /\ out' = [out EXCEPT ![p] = Outcome("answered", res[p].agentId, 200)]
                 /\ store' = store
       ELSE /\ out' = [out EXCEPT ![p] = Outcome("rejected", NULL, 400)]
            /\ store' = store
    /\ UNCHANGED <<env, auxVars, now, last, allFailed, req, res, calls, sent, nextAgentId>>

----------------------------------------------------------------------------
(* Metadata values: registerAgent, lines 67-77. A string is a sequence of
   Unicode code points; a hex string is the string of its characters. *)

\* longest metadata value
MaxChars == 3

\* the characters of the values: 0, x, a, f, and characters that take two, three
\* and four bytes in UTF-8
CodePoints == {48, 120, 97, 102, 233, 8364, 128512}

MetadataValues == UNION {[1..n -> CodePoints] : n \in 0..MaxChars}

\* value.startsWith("0x")
startsWith0x(value) == Len(value) >= 2 /\ value[1] = 48 /\ value[2] = 120

Utf8Latin1(c) == <<c % 256>>

\* the UTF-8 bytes of one code point
Utf8(c) ==
    IF c < 128 THEN <<c>>
    ELSE IF c < 2048 THEN <<192 + (c \div 64), 128 + (c % 64)>>
    ELSE IF c < 65536
         THEN <<224 + (c \div 4096), 128 + ((c \div 64) % 64), 128 + (c % 64)>>
         ELSE <<240 + (c \div 262144), 128 + ((c \div 4096) % 64),
                128 + ((c \div 64) % 64), 128 + (c % 64)>>

\* Buffer.from(value): the UTF-8 bytes of a string
RECURSIVE BufferFrom(_)
BufferFrom(value) ==
    IF value = <<>> THEN <<>> ELSE Utf8(Head(value)) \o BufferFrom(Tail(value))

\* the character of a hex digit, lower case
HexChar(d) == IF d < 10 THEN 48 + d ELSE 87 + d

\* buffer.toString("hex")
RECURSIVE toHex(_)
toHex(bytes) ==
    IF bytes = <<>> THEN <<>>
    ELSE <<HexChar(Head(bytes) \div 16), HexChar(Head(bytes) % 16)>> \o toHex(Tail(bytes))

\* lines 73-75: the metadataValue of an entry
metadataValue(value) ==
    IF startsWith0x(value) THEN value ELSE <<48, 120>> \o toHex(BufferFrom(value))

\* reading a metadataValue back: the bytes of a hex string (after its 0x) ...
HexVal(c) == IF c <= 57 THEN c - 48 ELSE c - 87

RECURSIVE hexToBytes(_)
hexToBytes(hex) ==
    IF Len(hex) < 2 THEN <<>>
    ELSE <<16 * HexVal(hex[1]) + HexVal(hex[2])>> \o hexToBytes(SubSeq(hex, 3, Len(hex)))

\* ... and the string of UTF-8 bytes
RECURSIVE utf8Decode(_)
utf8Decode(bytes) ==
    IF bytes = <<>> THEN <<>>
    ELSE LET b == bytes[1]
             n == IF b < 128 THEN 1 ELSE IF b < 224 THEN 2 ELSE IF b < 240 THEN 3 ELSE 4
             cont(i) == IF i <= Len(bytes) THEN bytes[i] % 64 ELSE 0
             c == IF n = 1 THEN b
                  ELSE IF n = 2 THEN (b % 32) * 64 + cont(2)
                  ELSE IF n = 3 THEN (b % 16) * 4096 + cont(2) * 64 + cont(3)
                  ELSE (b % 8) * 262144 + cont(2) * 4096 + cont(3) * 64 + cont(4)
         IN  <<c>> \o utf8Decode(SubSeq(bytes, n + 1, Len(bytes)))

hexToString(hex) == utf8Decode(hexToBytes(SubSeq(hex, 3, Len(hex))))

\* the tokenURI and metadata of a RegisterInfo on their way into the call data.
\* tokenURI NULL is undefined; metadata is "undefined", "empty" (a list with no
\* entry) or "entries" (a list with one entry, whose value is value)
NoMetadata ==
    [stage |-> "none", tokenURI |-> NULL, metadata |-> "undefined", value |-> <<>>,
     metadataValue |-> <<>>, metadataEntries |-> <<>>, data |-> <<>>, read |-> <<>>,
     invoked |-> <<>>]

TokenURIs == {NULL, "", "ipfs://x"}

\* lines 70-77: the entries of a non-empty metadata list; <<>> is undefined
metadataEntries(metadata, value) ==
    IF metadata = "entries"
    THEN <<[metadataKey |-> "k", metadataValue |-> metadataValue(value)]>>
    ELSE <<>>

\* registerAgent builds the entry's metadataValue
EncodeMetadata ==
    /\ md.stage = "given"
    /\ md' = [md EXCEPT !.stage = "encoded",
                        !.metadataValue = IF md.metadata = "entries"
                                          THEN metadataValue(md.value) ELSE <<>>,
                        !.metadataEntries = metadataEntries(md.metadata, md.value)]
    /\ UNCHANGED <<env, storeVars, regVars, fb, feedbackAuthStore>>

\* tokenURI is falsy
NoTokenURI(tokenURI) == tokenURI = NULL \/ tokenURI = ""

encodeFunctionDataUriFirst(registry, tokenURI, entries) ==
    IF ~NoTokenURI(tokenURI) THEN <<registry, tokenURI>>
    ELSE IF Len(entries) > 0 THEN <<registry, "", entries>>
    ELSE <<registry>>

\* lines 116-135: the arguments of the register call that is encoded
encodeFunctionData(registry, tokenURI, entries) ==
    IF Len(entries) > 0
    THEN <<registry, IF NoTokenURI(tokenURI) THEN "" ELSE tokenURI, entries>>
    ELSE IF ~NoTokenURI(tokenURI) THEN <<registry, tokenURI>>
    ELSE <<registry>>

\* registerAgent encodes the call
EncodeCall ==
    /\ md.stage = "encoded"
    /\ md' = [md EXCEPT !.stage = "called",
                        !.data = encodeFunctionData(ERC8004_IDENTITY_REGISTRY_ADDRESS(env),
                                                    md.tokenURI, md.metadataEntries)]
    /\ UNCHANGED <<env, storeVars, regVars, fb, feedbackAuthStore>>

delegateRegisterUriFirst(args) ==
    IF Len(args) = 3
    THEN IF Len(args[2]) > 0 THEN <<"register", args[2]>>
         ELSE IF Len(args[3]) > 0 THEN <<"register", args[2], args[3]>>
         ELSE <<"register">>
    ELSE IF Len(args) = 2 THEN <<"register", args[2]>>
    ELSE <<"register">>

\* AgentRegistrationDelegate.register, its three overloads (part_007, lines
\* 75-120): the call each makes on the identity registry. Len of a string is
\* bytes(tokenURI).length.
delegateRegister(args) ==
    IF Len(args) = 3
    THEN IF Len(args[3]) > 0 THEN <<"register", args[2], args[3]>>
         ELSE IF Len(args[2]) > 0 THEN <<"register", args[2]>>
         ELSE <<"register">>
    ELSE IF Len(args) = 2 THEN <<"register", args[2]>>
    ELSE <<"register">>

\* the string a tokenURI is once it is ABI-encoded; the call data carries its
\* characters
UriChars(tokenURI) ==
    CASE tokenURI = "ipfs://x" -> <<"i", "p", "f", "s", ":", "/", "/", "x">>
      [] OTHER -> <<>>

\* the call data as the delegate receives it: the registry, then the
\* characters of the tokenURI, then the entries
CallArgs(data) ==
    [i \in DOMAIN data |-> IF i = 2 THEN UriChars(data[i]) ELSE data[i]]

\* the agent account, running the delegate's code, executes the call
DelegateExecute ==
    /\ md.stage \in {"called", "read"}
    /\ md.invoked = <<>>
    /\ md' = [md EXCEPT !.invoked = delegateRegister(CallArgs(md.data))]
    /\ UNCHANGED <<env, storeVars, regVars, fb, feedbackAuthStore>>

\* a reader of the registry decodes the stored bytes as text
ReadMetadata ==
    /\ md.stage = "called"
    /\ md.metadata = "entries"
    /\ ~startsWith0x(md.value)
    /\ md' = [md EXCEPT !.stage = "read", !.read = hexToString(md.metadataValue)]
    /\ UNCHANGED <<env, storeVars, regVars, fb, feedbackAuthStore>>

----------------------------------------------------------------------------
(* Feedback tokens: generateFeedbackAuth, generateClientFeedbackAuth and
   GET /getFeedbackAuth of index.ts. A byte string is a sequence of chunks, each
   with its length in bytes and what it holds. *)

WordBytes == 32
SignatureBytes == 65

ClientMixed == <<"C", "a", "F", "e">>
OwnerA == <<"B", "e", "e", "F">>
OwnerB == <<"0", "d", "d", "B">>

\* private keys, and the address of each key's account
KeyFacilitator == "key-facilitator"
KeyOwnerA == "key-owner-a"
KeyInvalid == "not-a-key"
AddressOfKey(key) ==
    CASE key = KeyFacilitator -> <<"F", "a", "c", "1">>
      [] key = KeyOwnerA -> OwnerA
      [] OTHER -> NoAddress

\* a URL string, in two parts: what new URL(text).origin answers, and the rest
\* of the text. A text that new URL rejects has no origin; NoUrl is undefined.
Url(origin, path) == [origin |-> origin, path |-> path]
NoUrl == Url("", "")
IsUrl(u) == u.origin # ""

ResourceUrl == Url("https://agent.example", "/resource")
ResourceText == Url("", "agent.example")
ResourceTextSlash == Url("", "agent.example/")
AgentUrl == Url("https://agent.example", "/signFeedbackAuth")
AgentServerUrl == Url("https://signer.example", "")

\* process.env as index.ts reads it
IssuerEnvs ==
    [REDIS_URL : {NULL},
     ERC8004_NETWORK : {NULL},
     ERC8004_IDENTITY_REGISTRY_ADDRESS : {NoAddress, RegistryEnv},
     DELEGATE_CONTRACT_ADDRESS : {NoAddress},
     RPC_URL : {"https://rpc.example"},
     AGENT_SERVER_URL : {NoUrl, AgentServerUrl},
     FACILITATOR_PRIVATE_KEY : {NULL, KeyFacilitator, KeyInvalid}]

\* BigInt(agentId)
BigInt(str) == CHOOSE n \in 0..9 : toString(n) = str

\* one 32-byte word of encodeAbiParameters; an address is encoded by its bytes,
\* which have no letter case
Word(type, value) ==
    [bytes |-> WordBytes, type |-> type,
     value |-> IF type = "address" THEN toLowerCase(value) ELSE value]

\* Math.floor(Date.now() / 1000) + 3600
DefaultExpiry(t) == (t \div 1000) + 3600

\* expiry || default: an omitted expiry and 0n are both 0 here
expiryTime(expiry, t) == IF expiry # 0 THEN expiry ELSE DefaultExpiry(t)

\* the default of the parameter indexLimit; -1 stands for undefined
indexLimitOf(indexLimit) == IF indexLimit = -1 THEN 1000 ELSE indexLimit

feedbackAuthStructSwapped(a, registry, t) ==
    <<Word("uint256", BigInt(a.agentId)),
      Word("address", a.agentOwnerAddress),
      Word("uint64", indexLimitOf(a.indexLimit)),
      Word("uint256", expiryTime(a.expiry, t)),
      Word("uint256", a.chainId),
      Word("address", registry),
      Word("address", a.clientAddress)>>

\* lines 1326-1346: the encoded FeedbackAuth struct
feedbackAuthStruct(a, registry, t) ==
    <<Word("uint256", BigInt(a.agentId)),
      Word("address", a.clientAddress),
      Word("uint64", indexLimitOf(a.indexLimit)),
      Word("uint256", expiryTime(a.expiry, t)),
      Word("uint256", a.chainId),
      Word("address", registry),
      Word("address", a.agentOwnerAddress)>>

\* keccak256, taken to be free of collisions
keccak256(bytes) == <<"keccak256", bytes>>

\* lines 1351-1354
eip191Hash(struct) ==
    keccak256(<<"\\x19Ethereum Signed Message:\\n32", keccak256(struct)>>)

\* account.sign({hash}): r, s and v of the signature by a key
sign(key, hash) ==
    <<[bytes |-> 32, part |-> "r", key |-> key, hash |-> hash],
      [bytes |-> 32, part |-> "s", key |-> key, hash |-> hash],
      [bytes |-> 1, part |-> "v", key |-> key, hash |-> hash]>>

RECURSIVE ByteLength(_)
ByteLength(chunks) ==
    IF chunks = <<>> THEN 0 ELSE Head(chunks).bytes + ByteLength(Tail(chunks))

\* what the agent server can answer to POST /signFeedbackAuth
SignResponses(hash) ==
    {[reached |-> FALSE, ok |-> FALSE, success |-> FALSE, signature |-> NULL]} \cup
    [reached : {TRUE}, ok : {FALSE}, success : {FALSE}, signature : {NULL}] \cup
    [reached : {TRUE}, ok : {TRUE}, success : BOOLEAN,
     signature : {NULL, "0x", "short", "signed"}]

\* the bytes of a signature string the server sent: "0x" has none
SignatureOf(str, hash) ==
    CASE str = "signed" -> sign(KeyOwnerA, hash)
      [] str = "short" -> SubSeq(sign(KeyOwnerA, hash), 1, 2)
      [] OTHER -> <<>>

\* the remote answer is taken as the signature (lines 1386-1400)
RemoteAccepted(r) ==
    r.reached /\ r.ok /\ r.success /\ r.signature # NULL

NoArgs ==
    [agentId |-> "0", clientAddress |-> NoAddress, agentOwnerAddress |-> NoAddress,
     agentOwnerPrivateKey |-> NULL, chainId |-> 0, expiry |-> 0, indexLimit |-> -1,
     agentUrl |-> NoUrl, network |-> NULL, resourceUrl |-> NoUrl,
     feedbackAuthEndpoint |-> NULL, feedbackEnabled |-> FALSE,
     payTo |-> NoAddress, from |-> NoAddress, x402Version |-> 0]

\* the two calls in flight
Callers == {1, 2}

\* the error of a failure: the text of the error that was raised (message),
\* after what the catch puts before it (prefix)
NoIssueError == [prefix |-> "", message |-> ""]
IssueError(prefix, message) == [prefix |-> prefix, message |-> message]

\* one issuance: its position, its arguments, and what it has computed
NoCall ==
    [pc |-> "idle", kind |-> "none", args |-> NoArgs, struct |-> <<>>,
     via |-> "none", signature |-> <<>>, token |-> <<>>, result |-> "none",
     error |-> NoIssueError, url |-> NoUrl]

NoLookup == [clientAddress |-> NoAddress, status |-> 0, agentId |-> NULL,
             feedbackAuth |-> <<>>]

NoStored == [agentId |-> NULL, feedbackAuth |-> <<>>]

\* the same address as ClientMixed in another letter case, and another client
ClientVariant == <<"c", "A", "F", "E">>
ClientOther == <<"D", "0", "e">>
Clients == {ClientMixed, ClientVariant, ClientOther}

\* the strings that can be keys of the Map
ClientKeys == Clients \cup {toLowerCase(a) : a \in Clients}

\* one POST /settle request: where its handler is, what facilitator.settle
\* answered (settled), the status and body sent, and the increments of
\* settlementCounter made by the hook's then and catch
NoSettle == [pc |-> "idle", settled |-> "none", status |-> 0, body |-> "none",
             settlementCounter |-> <<>>]

\* FeedbackResult; txHash 0 and error "" are absent
NoFeedbackResult == [success |-> FALSE, txHash |-> 0, error |-> ""]

\* one giveFeedback call: its parameters, the hash writeContract answered, the
\* status of the receipt, the transactions sent and the result returned
NoGive == [pc |-> "idle", agentId |-> "0", score |-> 0, network |-> NULL,
           hash |-> 0, receipt |-> "none", sent |-> <<>>,
           result |-> NoFeedbackResult]

NoFeedback ==
    [call |-> [c \in Callers |-> NoCall], issued |-> <<>>, lookup |-> NoLookup,
     settle |-> NoSettle, give |-> NoGive]

InitAux ==
    /\ fb = NoFeedback
    /\ feedbackAuthStore = [k \in ClientKeys |-> NoStored]
    /\ md = NoMetadata

Call(c) == fb.call[c]

ThrownPropagates(c, message) ==
    [Call(c) EXCEPT !.pc = "done", !.result = "threw",
                    !.error = IssueError("", message)]

\* an exception leaves generateFeedbackAuth: its caller generateClientFeedbackAuth
\* catches it (lines 623-628) and answers a failure with the error's message
Thrown(c, message) ==
    [Call(c) EXCEPT !.pc = "done",
                    !.result = IF Call(c).kind = "client" THEN "failure" ELSE "threw",
                    !.error = IF Call(c).kind = "client"
                              THEN IssueError("Agent does not exist: ", message)
                              ELSE IssueError("", message)]

\* a failure that generateClientFeedbackAuth returns
Failed(c, prefix, message) ==
    [Call(c) EXCEPT !.pc = "done", !.result = "failure",
                    !.error = IssueError(prefix, message)]

\* lines 1415-1417: the token is the struct followed by the signature
Returned(c, struct, via, signature) ==
    [Call(c) EXCEPT !.pc = IF Call(c).kind = "client" THEN "store" ELSE "done",
                    !.struct = struct,
                    !.via = via,
                    !.signature = signature,
                    !.token = struct \o signature,
                    !.result = IF Call(c).kind = "client" THEN "none" ELSE "returned"]

\* lines 1400-1412: privateKeyToAccount(agentOwnerPrivateKey), account.sign
SignedLocally(c, struct, via) ==
    IF AddressOfKey(Call(c).args.agentOwnerPrivateKey) = NoAddress
    THEN Thrown(c, "invalid private key")
    ELSE Returned(c, struct, via,
                  sign(Call(c).args.agentOwnerPrivateKey, eip191Hash(struct)))

\* agentUrl || AGENT_SERVER_URL
serverUrl(e, a) == IF a.agentUrl # NoUrl THEN a.agentUrl ELSE e.AGENT_SERVER_URL

\* lines 1363-1376: the URL the signing request goes to
signUrl(e, a) ==
    IF a.agentUrl # NoUrl
    THEN IF IsUrl(a.agentUrl)
         THEN Url(a.agentUrl.origin, "/signFeedbackAuth")
         ELSE Url("", a.agentUrl.path \o "/signFeedbackAuth")
    ELSE Url(e.AGENT_SERVER_URL.origin, e.AGENT_SERVER_URL.path \o "/signFeedbackAuth")

\* generateFeedbackAuth up to its first await (lines 1310-1378)
GfaEncode(c) ==
    /\ Call(c).pc = "gfa"
    /\ LET a == Call(c).args
           registry == env.ERC8004_IDENTITY_REGISTRY_ADDRESS
           struct == feedbackAuthStruct(a, registry, now)
       IN  fb' = [fb EXCEPT !.call[c] =
                    IF registry = NoAddress
                    THEN Thrown(c, "ERC8004_IDENTITY_REGISTRY_ADDRESS not configured")
                    ELSE IF serverUrl(env, a) # NoUrl
                         THEN [Call(c) EXCEPT !.pc = "fetch", !.struct = struct,
                                              !.url = signUrl(env, a)]
                         ELSE SignedLocally(c, struct, "local")]
    /\ UNCHANGED <<env, storeVars, regVars, feedbackAuthStore, md>>

\* the agent server answers POST /signFeedbackAuth, or cannot be reached
\* (lines 1372-1407)
GfaRemote(c) ==
    /\ Call(c).pc = "fetch"
    /\ \E r \in SignResponses(eip191Hash(Call(c).struct)) :
         /\ r.reached => IsUrl(Call(c).url)
         /\ fb' = [fb EXCEPT !.call[c] =
                  IF RemoteAccepted(r)
                  THEN Returned(c, Call(c).struct, "remote",
                                SignatureOf(r.signature, eip191Hash(Call(c).struct)))
                  ELSE SignedLocally(c, Call(c).struct, "fallback")]
    /\ UNCHANGED <<env, storeVars, regVars, feedbackAuthStore, md>>

\* String.prototype.endsWith("/") and slice(1), on the texts of the model
endsWithSlash(u) == u = ResourceTextSlash
slice1(endpoint) ==
    CASE endpoint = "/signFeedbackAuth" -> "signFeedbackAuth"
      [] endpoint = "/custom/sign" -> "custom/sign"
      [] OTHER -> endpoint

\* the agent URL the onAfterSettle hook derives from the paid resource
\* (lines 669-687)
agentUrlOf(resourceUrl, endpoint) ==
    LET feedbackAuthEndpoint == IF endpoint \in {NULL, ""} THEN "/signFeedbackAuth"
                                ELSE endpoint
    IN  IF resourceUrl = NoUrl THEN NoUrl
        ELSE IF IsUrl(resourceUrl) THEN Url(resourceUrl.origin, feedbackAuthEndpoint)
        ELSE IF endsWithSlash(resourceUrl)
             THEN Url("", resourceUrl.path \o slice1(feedbackAuthEndpoint))
             ELSE Url("", resourceUrl.path \o feedbackAuthEndpoint)

\* the onAfterSettle hook up to its call of generateClientFeedbackAuth
\* (lines 642-695)
AfterSettle(c) ==
    /\ Call(c).pc = "settled"
    /\ LET a == Call(c).args
       IN  fb' = [fb EXCEPT !.call[c] =
                    IF a.agentId = "" \/ ~a.feedbackEnabled \/ a.clientAddress = NoAddress
                    THEN [Call(c) EXCEPT !.pc = "skipped"]
                    ELSE [Call(c) EXCEPT
                            !.pc = "gcfa", !.kind = "client",
                            !.args.network = IF a.network \in {NULL, ""}
                                             THEN "base-sepolia" ELSE a.network,
                            !.args.agentUrl =
                                agentUrlOf(a.resourceUrl, a.feedbackAuthEndpoint)]]
    /\ UNCHANGED <<env, storeVars, regVars, feedbackAuthStore, md>>

\* index.ts, feedback(context), lines 175-240: the second half of the
\* onAfterSettle hook of a v2 payment, up to its call of
\* generateClientFeedbackAuth. The ledger is read under the payer's address
\* (line 220). A missing feedbackAuthEndpoint is interpolated as "undefined".
Feedback(c) ==
    /\ Call(c).pc = "paid"
    /\ Call(c).args.x402Version = 2
    /\ LET a == Call(c).args
           clientAddress == a.from
           agentId == LedgerValue(store, toLowerCase(clientAddress))
           feedbackAuthEndpoint == IF a.feedbackAuthEndpoint = NULL THEN "undefined"
                                   ELSE a.feedbackAuthEndpoint
       IN  fb' = [fb EXCEPT !.call[c] =
                    IF \/ ~a.feedbackEnabled
                       \/ clientAddress = NoAddress
                       \/ (a.resourceUrl # NoUrl /\ ~IsUrl(a.resourceUrl))
                       \/ agentId \in {NULL, ""}
                    THEN [Call(c) EXCEPT !.pc = "skipped"]
                    ELSE [Call(c) EXCEPT
                            !.pc = "gcfa", !.kind = "client",
                            !.args.agentId = agentId,
                            !.args.clientAddress = clientAddress,
                            !.args.network = IF a.network \in {NULL, ""}
                                             THEN "base-sepolia" ELSE a.network,
                            !.args.agentUrl =
                                IF a.resourceUrl = NoUrl THEN NoUrl
                                ELSE Url(a.resourceUrl.origin, feedbackAuthEndpoint)]]
    /\ UNCHANGED <<env, storeVars, regVars, feedbackAuthStore, md>>

\* POST /settle of a v1 payment after legacySettle answered success
\* (part_003, lines 835-872): the ledger is read under the payment's "to"
SettleV1(c) ==
    /\ Call(c).pc = "paid"
    /\ Call(c).args.x402Version = 1
    /\ LET a == Call(c).args
           clientAddress == a.from
           payTo == a.payTo
           agentId == LedgerValue(store, toLowerCase(payTo))
       IN  fb' = [fb EXCEPT !.call[c] =
                    IF clientAddress = NoAddress \/ agentId \in {NULL, ""}
                    THEN [Call(c) EXCEPT !.pc = "skipped"]
                    ELSE [Call(c) EXCEPT
                            !.pc = "gcfa", !.kind = "client",
                            !.args.agentId = agentId,
                            !.args.clientAddress = clientAddress,
                            !.args.agentUrl = NoUrl]]
    /\ UNCHANGED <<env, storeVars, regVars, feedbackAuthStore, md>>

\* generateClientFeedbackAuth up to its first await (lines 547-579)
GcfaStart(c) ==
    /\ Call(c).pc = "gcfa"
    /\ \E chain \in mapX402NetworkToChain(Call(c).args.network) :
         fb' = [fb EXCEPT !.call[c] =
                  IF \/ env.RPC_URL = NULL
                     \/ env.ERC8004_IDENTITY_REGISTRY_ADDRESS = NoAddress
                  THEN Failed(c, "", "Facilitator not configured for ERC-8004")
                  ELSE IF env.FACILITATOR_PRIVATE_KEY = NULL
                  THEN Failed(c, "", "Facilitator private key not configured")
                  ELSE IF chain = 0
                  THEN Failed(c, "Unsupported network: ", Call(c).args.network)
                  ELSE [Call(c) EXCEPT !.pc = "getChainId"]]
    /\ UNCHANGED <<env, storeVars, regVars, feedbackAuthStore, md>>

\* publicClient.getChainId() answers the chain id of the node behind RPC_URL (a
\* Base Sepolia node) or throws (lines 579, 630-636)
GcfaChainId(c) ==
    /\ Call(c).pc = "getChainId"
    /\ \/ fb' = [fb EXCEPT !.call[c] = Failed(c, "", "getChainId failed")]
       \/ \E actualChainId \in {ChainBaseSepolia} :
            fb' = [fb EXCEPT !.call[c] =
                     [Call(c) EXCEPT !.pc = "ownerOf", !.args.chainId = actualChainId]]
    /\ UNCHANGED <<env, storeVars, regVars, feedbackAuthStore, md>>

\* ownerOf(agentId) answers the owner or reverts (lines 582-604, 623-628);
\* the owner becomes the agentOwnerAddress of generateFeedbackAuth
GcfaOwnerOf(c) ==
    /\ Call(c).pc = "ownerOf"
    /\ \/ fb' = [fb EXCEPT !.call[c] = Thrown(c, "ownerOf reverted")]
       \/ \E owner \in {OwnerA, OwnerB} :
            fb' = [fb EXCEPT !.call[c] =
                     [Call(c) EXCEPT !.pc = "gfa",
                                     !.args.agentOwnerAddress = owner,
                                     !.args.agentOwnerPrivateKey = env.FACILITATOR_PRIVATE_KEY]]
    /\ UNCHANGED <<env, storeVars, regVars, feedbackAuthStore, md>>

Stored(c) == [agentId |-> Call(c).args.agentId, feedbackAuth |-> Call(c).token]

GcfaStoreAsGiven(c) ==
    /\ Call(c).pc = "store"
    /\ feedbackAuthStore' =
         [feedbackAuthStore EXCEPT ![Call(c).args.clientAddress] = Stored(c)]
    /\ fb' = [fb EXCEPT !.call[c] = [Call(c) EXCEPT !.pc = "done", !.result = "success"],
                        !.issued = Append(@, [caller |-> c,
                                              key |-> toLowerCase(Call(c).args.clientAddress),
                                              stored |-> Stored(c)])]
    /\ UNCHANGED <<env, storeVars, regVars, md>>

\* lines 606-622: the token is kept under the lowercase client address
GcfaStore(c) ==
    /\ Call(c).pc = "store"
    /\ feedbackAuthStore' =
         [feedbackAuthStore EXCEPT ![toLowerCase(Call(c).args.clientAddress)] = Stored(c)]
    /\ fb' = [fb EXCEPT !.call[c] = [Call(c) EXCEPT !.pc = "done", !.result = "success"],
                        !.issued = Append(@, [caller |-> c,
                                              key |-> toLowerCase(Call(c).args.clientAddress),
                                              stored |-> Stored(c)])]
    /\ UNCHANGED <<env, storeVars, regVars, md>>

\* GET /getFeedbackAuth?clientAddress=... (lines 1034-1062); a missing
\* parameter is NoAddress
GetFeedbackAuth(clientAddress) ==
    /\ fb' = [fb EXCEPT !.lookup =
                IF clientAddress = NoAddress
                THEN [NoLookup EXCEPT !.status = 400]
                ELSE LET stored == feedbackAuthStore[toLowerCase(clientAddress)]
                     IN  IF stored = NoStored
                         THEN [NoLookup EXCEPT !.clientAddress = clientAddress,
                                               !.status = 404]
                         ELSE [clientAddress |-> clientAddress, status |-> 200,
                               agentId |-> stored.agentId,
                               feedbackAuth |-> stored.feedbackAuth]]
    /\ UNCHANGED <<env, storeVars, regVars, feedbackAuthStore, md>>

----------------------------------------------------------------------------
(* Specifications *)

InitCommon ==
    /\ store = NewStore(env.REDIS_URL)
    /\ now = 0
    /\ last = NoEvent
    /\ allFailed = TRUE
    /\ pc = [p \in Procs |-> "idle"]
    /\ req = [p \in Procs |-> NoRequest]
    /\ res = [p \in Procs |-> NoResult]
    /\ out = [p \in Procs |-> NoOutcome]
    /\ calls = [p \in Procs |-> <<>>]
    /\ sent = [p \in Procs |-> <<>>]
    /\ nextAgentId = 1

DefaultEnv(e) ==
    /\ e.ERC8004_NETWORK = NULL
    /\ e.ERC8004_IDENTITY_REGISTRY_ADDRESS = NoAddress
    /\ e.DELEGATE_CONTRACT_ADDRESS = NoAddress

\* the registration system: requests arrive and interleave at their awaits
Init ==
    /\ env \in {e \in Envs : DefaultEnv(e)}
    /\ InitCommon
    /\ InitAux

Next ==
    \E p \in Procs :
        \/ StartHook(p)
        \/ HookGet(p)
        \/ StartPost(p)
        \/ RaEnter(p)
        \/ RaNonce(p)
        \/ RaSend(p)
        \/ RaReceipt(p)
        \/ HookFinish(p)
        \/ PostFinish(p)

Spec == Init /\ [][Next]_vars

\* the key-value store on its own, with a clock
InitStore ==
    /\ env \in {e \in Envs : DefaultEnv(e)}
    /\ InitCommon
    /\ InitAux

NextStore ==
    \/ \E k \in StoreKeys : Get(k)
    \/ \E k \in StoreKeys, v \in {"1", "2"}, ttl \in 0..MaxTtl : Set(k, v, ttl)
    \/ \E k \in StoreKeys : Has(k)
    \/ \E k \in StoreKeys : Delete(k)
    \/ ConnectFail
    \/ Tick

SpecStore == InitStore /\ [][NextStore]_vars

\* one registration, from the call of registerAgent to what its caller (the hook
\* or POST /register) does with the result; the inputs are drawn at the start
RegAuths ==
    [chainId : {ChainBase, ChainSepolia, ChainBaseSepolia, ChainAnvil},
     address : {DelegateBase, toLowerCase(DelegateBase), DelegateEnv,
                toLowerCase(DelegateEnv), DelegateSepolia},
     nonce : {0, 1}]
RegNetworks == {NULL, Net(ChainBase), "base-sepolia", "solana"}

InitRegister ==
    /\ env \in Envs
    /\ store = NewStore(env.REDIS_URL)
    /\ now = 0
    /\ last = NoEvent
    /\ allFailed = TRUE
    /\ \E kind \in {"hook", "post"}, authorization \in RegAuths,
          network \in RegNetworks :
         req = [p \in Procs |->
                   IF p = 1
                   THEN [kind |-> kind,
                         agentAddress |-> IF kind = "hook" THEN toLowerCase(AgentMixed)
                                          ELSE AgentMixed,
                         authorization |-> authorization, network |-> network,
                         held |-> NULL]
                   ELSE NoRequest]
    /\ pc = [p \in Procs |-> IF p # 1 THEN "idle"
                              ELSE IF req[p].kind = "hook" THEN "hookGet" ELSE "raEnter"]
    /\ res = [p \in Procs |-> NoResult]
    /\ out = [p \in Procs |-> NoOutcome]
    /\ calls = [p \in Procs |-> <<>>]
    /\ sent = [p \in Procs |-> <<>>]
    /\ nextAgentId = 1
    /\ InitAux

NextRegister ==
    \E p \in Procs :
        \/ HookGet(p)
        \/ RaEnter(p)
        \/ RaNonce(p)
        \/ RaSend(p)
        \/ RaReceipt(p)
        \/ HookFinish(p)
        \/ PostFinish(p)

SpecRegister == InitRegister /\ [][NextRegister]_vars

\* one metadata entry, over all values, through registerAgent's encoding
InitMetadata ==
    /\ env \in {e \in Envs : DefaultEnv(e) /\ e.REDIS_URL = NULL}
    /\ InitCommon
    /\ fb = NoFeedback
    /\ feedbackAuthStore = [k \in ClientKeys |-> NoStored]
    /\ \E tokenURI \in TokenURIs, metadata \in {"undefined", "empty", "entries"},
          value \in MetadataValues :
         /\ metadata # "entries" => value = <<>>
         /\ md = [NoMetadata EXCEPT !.stage = "given", !.tokenURI = tokenURI,
                                    !.metadata = metadata, !.value = value]

NextMetadata ==
    \/ EncodeMetadata
    \/ EncodeCall
    \/ DelegateExecute
    \/ ReadMetadata

SpecMetadata == InitMetadata /\ [][NextMetadata]_vars

\* the issuer called twice with the same arguments, while time passes
IssuerArgs ==
    [agentId : {"7"}, clientAddress : {ClientMixed}, agentOwnerAddress : {OwnerA},
     agentOwnerPrivateKey : {KeyOwnerA, KeyInvalid}, chainId : {ChainBaseSepolia},
     expiry : {0, 5000}, indexLimit : {-1, 1000, 5}, agentUrl : {NoUrl, AgentUrl},
     network : {NULL}, resourceUrl : {NoUrl}, feedbackAuthEndpoint : {NULL},
     feedbackEnabled : {FALSE}, payTo : {NoAddress}, from : {NoAddress},
     x402Version : {0}]

InitIssuer ==
    /\ env \in {e \in IssuerEnvs : e.FACILITATOR_PRIVATE_KEY = KeyFacilitator}
    /\ InitCommon
    /\ feedbackAuthStore = [k \in ClientKeys |-> NoStored]
    /\ md = NoMetadata
    /\ \E args \in IssuerArgs :
         fb = [NoFeedback EXCEPT !.call =
                  [c \in Callers |-> [NoCall EXCEPT !.pc = "gfa", !.kind = "direct",
                                                    !.args = args]]]

NextIssuer ==
    \/ \E c \in Callers : GfaEncode(c)
    \/ \E c \in Callers : GfaRemote(c)
    \/ Tick

SpecIssuer == InitIssuer /\ [][NextIssuer]_vars

\* two issuances for clients, and lookups of the stored tokens
ClientArgs ==
    [agentId : {"7", "8"}, clientAddress : Clients, agentOwnerAddress : {NoAddress},
     agentOwnerPrivateKey : {NULL}, chainId : {0}, expiry : {0}, indexLimit : {-1},
     agentUrl : {NoUrl, AgentUrl}, network : {"base-sepolia", "solana"},
     resourceUrl : {NoUrl}, feedbackAuthEndpoint : {NULL}, feedbackEnabled : {FALSE},
     payTo : {NoAddress}, from : {NoAddress}, x402Version : {0}]

InitFeedback ==
    /\ env \in IssuerEnvs
    /\ InitCommon
    /\ feedbackAuthStore = [k \in ClientKeys |-> NoStored]
    /\ md = NoMetadata
    /\ \E a1, a2 \in ClientArgs :
         /\ a1.agentId = "7" /\ a1.clientAddress = ClientMixed
         /\ a2.clientAddress # ClientMixed
         /\ a1.agentUrl = a2.agentUrl /\ a1.network = a2.network
         /\ fb = [NoFeedback EXCEPT !.call =
                    [c \in Callers |-> [NoCall EXCEPT !.pc = "gcfa", !.kind = "client",
                                                      !.args = IF c = 1 THEN a1 ELSE a2]]]

NextFeedback ==
    \/ \E c \in Callers : GcfaStart(c)
    \/ \E c \in Callers : GcfaChainId(c)
    \/ \E c \in Callers : GcfaOwnerOf(c)
    \/ \E c \in Callers : GfaEncode(c)
    \/ \E c \in Callers : GfaRemote(c)
    \/ \E c \in Callers : GcfaStore(c)
    \/ \E clientAddress \in Clients \cup {toLowerCase(ClientMixed), NoAddress} :
          GetFeedbackAuth(clientAddress)

SpecFeedback == InitFeedback /\ [][NextFeedback]_vars

\* the onAfterSettle hook of one settled payment, from the payment payload to
\* the stored token
SettledArgs ==
    [agentId : {"7", ""}, clientAddress : {ClientMixed, NoAddress},
     agentOwnerAddress : {NoAddress}, agentOwnerPrivateKey : {NULL}, chainId : {0},
     expiry : {0}, indexLimit : {-1}, agentUrl : {NoUrl},
     network : {NULL, "base-sepolia"},
     resourceUrl : {NoUrl, ResourceUrl, ResourceText, ResourceTextSlash},
     feedbackAuthEndpoint : {NULL, "/signFeedbackAuth", "/custom/sign"},
     feedbackEnabled : BOOLEAN, payTo : {NoAddress}, from : {NoAddress},
     x402Version : {0}]

InitSettle ==
    /\ env \in IssuerEnvs
    /\ InitCommon
    /\ feedbackAuthStore = [k \in ClientKeys |-> NoStored]
    /\ md = NoMetadata
    /\ \E a \in SettledArgs :
         fb = [NoFeedback EXCEPT !.call =
                 [c \in Callers |-> IF c = 1
                                    THEN [NoCall EXCEPT !.pc = "settled", !.args = a]
                                    ELSE NoCall]]

NextSettle ==
    \/ AfterSettle(1)
    \/ GcfaStart(1)
    \/ GcfaChainId(1)
    \/ GcfaOwnerOf(1)
    \/ GfaEncode(1)
    \/ GfaRemote(1)
    \/ GcfaStore(1)

SpecSettle == InitSettle /\ [][NextSettle]_vars

\* one settled payment (v1 through POST /settle, v2 through the hook) and the
\* token issued for it; the ledger holds what earlier registrations left
PaidArgs ==
    [agentId : {"0"}, clientAddress : {NoAddress},
     agentOwnerAddress : {NoAddress}, agentOwnerPrivateKey : {NULL}, chainId : {0},
     expiry : {0}, indexLimit : {-1}, agentUrl : {NoUrl},
     network : {"base-sepolia"},
     resourceUrl : {NoUrl, ResourceUrl, ResourceText},
     feedbackAuthEndpoint : {NULL, "/signFeedbackAuth"},
     feedbackEnabled : BOOLEAN, payTo : {AgentMixed, AgentOther},
     from : {ClientMixed, AgentMixed, NoAddress}, x402Version : {1, 2}]

PaidKeys == ClientKeys \cup {AgentMixed, toLowerCase(AgentMixed)}

InitPayment ==
    /\ env \in {e \in IssuerEnvs : e.FACILITATOR_PRIVATE_KEY = KeyFacilitator}
    /\ now = 0
    /\ last = NoEvent
    /\ allFailed = TRUE
    /\ pc = [p \in Procs |-> "idle"]
    /\ req = [p \in Procs |-> NoRequest]
    /\ res = [p \in Procs |-> NoResult]
    /\ out = [p \in Procs |-> NoOutcome]
    /\ calls = [p \in Procs |-> <<>>]
    /\ sent = [p \in Procs |-> <<>>]
    /\ nextAgentId = 1
    /\ \E entry \in {NoEntry, NewEntry("3", 0, 0)} :
         store = [NewStore(env.REDIS_URL) EXCEPT !.mem[toLowerCase(AgentMixed)] = entry]
    /\ feedbackAuthStore = [k \in PaidKeys |-> NoStored]
    /\ md = NoMetadata
    /\ \E a \in PaidArgs :
         /\ a.x402Version = 1 =>
               (a.resourceUrl = NoUrl /\ a.feedbackAuthEndpoint = NULL /\ ~a.feedbackEnabled)
         /\ fb = [NoFeedback EXCEPT !.call =
                    [c \in Callers |-> IF c = 1
                                       THEN [NoCall EXCEPT !.pc = "paid", !.args = a]
                                       ELSE NoCall]]

NextPayment ==
    \/ Feedback(1)
    \/ SettleV1(1)
    \/ GcfaStart(1)
    \/ GcfaChainId(1)
    \/ GcfaOwnerOf(1)
    \/ GfaEncode(1)
    \/ GfaRemote(1)
    \/ GcfaStore(1)

SpecPayment == InitPayment /\ [][NextPayment]_vars

\* POST /settle (part_004, lines 264-277): facilitator.settle settles the
\* payment, answers a response or throws; the onAfterSettle hooks run after a
\* settlement that succeeded
SettleOnChain ==
    /\ fb.settle.pc = "received"
    /\ \E settled \in {"success", "failed", "aborted", "threw"} :
         fb' = [fb EXCEPT !.settle.settled = settled,
                          !.settle.pc = IF settled = "success" THEN "afterSettle"
                                        ELSE "respond"]
    /\ UNCHANGED <<env, storeVars, regVars, feedbackAuthStore, md>>

OnAfterSettleAwaits(p) ==
    /\ fb.settle.pc = "afterSettle"
    /\ StartRegister(p)
    /\ fb' = [fb EXCEPT !.settle.pc = "awaitRegister"]
    /\ UNCHANGED <<feedbackAuthStore, md>>

\* the erc-8004 onAfterSettle hook (part_004, lines 68-81): register(context)
\* runs to its first await and hands back its promise, the hook attaches then
\* and catch and returns
OnAfterSettle(p) ==
    /\ fb.settle.pc = "afterSettle"
    /\ StartRegister(p)
    /\ fb' = [fb EXCEPT !.settle.pc = "respond"]
    /\ UNCHANGED <<feedbackAuthStore, md>>

\* POST /settle, lines 277-295: res.json(response), or the catch branch
SettleRespond ==
    /\ fb.settle.pc = "respond"
    /\ fb' = [fb EXCEPT
                !.settle.pc = "responded",
                !.settle.status = IF fb.settle.settled = "threw" THEN 500 ELSE 200,
                !.settle.body = CASE fb.settle.settled = "success" -> "success"
                                  [] fb.settle.settled = "threw" -> "error"
                                  [] OTHER -> "failure"]
    /\ UNCHANGED <<env, storeVars, regVars, feedbackAuthStore, md>>

\* register(context) rejects: autoGenerateTokenURI, awaited outside the try of
\* register, throws (part_004, lines 133-150)
RegisterRejects(p) ==
    /\ pc[p] = "raEnter"
    /\ req[p].kind = "hook"
    /\ pc' = [pc EXCEPT ![p] = "done"]
    /\ out' = [out EXCEPT ![p] = Outcome("threw", NULL, 0)]
    /\ UNCHANGED <<env, auxVars, storeVars, req, res, calls, sent, nextAgentId>>

\* the then and the catch attached to register(context) (lines 74-80)
RegisterSettled(p) ==
    /\ pc[p] = "done"
    /\ fb.settle.settlementCounter = <<>>
    /\ fb' = [fb EXCEPT !.settle.settlementCounter =
                <<IF out[p].what = "threw" THEN "error" ELSE "success">>]
    /\ UNCHANGED <<env, storeVars, regVars, feedbackAuthStore, md>>

\* one POST /settle and the registration its hook starts in the background
InitSettlement ==
    /\ env \in {e \in Envs : DefaultEnv(e)}
    /\ InitCommon
    /\ fb = [NoFeedback EXCEPT !.settle.pc = "received"]
    /\ feedbackAuthStore = [k \in ClientKeys |-> NoStored]
    /\ md = NoMetadata

NextSettlement ==
    \/ SettleOnChain
    \/ OnAfterSettle(1)
    \/ SettleRespond
    \/ HookGet(1)
    \/ RegisterRejects(1)
    \/ RaEnter(1)
    \/ RaNonce(1)
    \/ RaSend(1)
    \/ RaReceipt(1)
    \/ HookFinish(1)
    \/ RegisterSettled(1)

SpecSettlement == InitSettlement /\ [][NextSettlement]_vars

GiveStartNoScoreCheck ==
    /\ fb.give.pc = "give"
    /\ \E chain \in mapX402NetworkToChain(fb.give.network) :
         fb' = [fb EXCEPT !.give =
                  IF chain = 0
                  THEN [@ EXCEPT !.pc = "done",
                                 !.result.error = "Unsupported network: " \o fb.give.network]
                  ELSE IF AddressOfKey(env.FACILITATOR_PRIVATE_KEY) = NoAddress
                  THEN [@ EXCEPT !.pc = "done", !.result.error = "invalid private key"]
                  ELSE [@ EXCEPT !.pc = "write"]]
    /\ UNCHANGED <<env, storeVars, regVars, feedbackAuthStore, md>>

\* giveFeedback up to its first await (reputationService.ts, lines 44-70): the
\* network, the score, the account of the facilitator's key
GiveStart ==
    /\ fb.give.pc = "give"
    /\ \E chain \in mapX402NetworkToChain(fb.give.network) :
         fb' = [fb EXCEPT !.give =
                  IF chain = 0
                  THEN [@ EXCEPT !.pc = "done",
                                 !.result.error = "Unsupported network: " \o fb.give.network]
                  ELSE IF fb.give.score < 0 \/ fb.give.score > 100
                  THEN [@ EXCEPT !.pc = "done",
                                 !.result.error = "Score must be between 0 and 100"]
                  ELSE IF AddressOfKey(env.FACILITATOR_PRIVATE_KEY) = NoAddress
                  THEN [@ EXCEPT !.pc = "done", !.result.error = "invalid private key"]
                  ELSE [@ EXCEPT !.pc = "write"]]
    /\ UNCHANGED <<env, storeVars, regVars, feedbackAuthStore, md>>

\* walletClient.writeContract answers a transaction hash or throws (lines
\* 73-78, 88-91)
GiveWrite ==
    /\ fb.give.pc = "write"
    /\ \/ fb' = [fb EXCEPT !.give.pc = "done",
                            !.give.result.error = "writeContract failed"]
       \/ \E hash \in {1, 2} :
            fb' = [fb EXCEPT !.give.pc = "receipt", !.give.hash = hash,
                             !.give.sent = Append(@, [score |-> fb.give.score,
                                                      hash |-> hash])]
    /\ UNCHANGED <<env, storeVars, regVars, feedbackAuthStore, md>>

\* waitForTransactionReceipt answers a receipt or throws (lines 80-91)
GiveReceipt ==
    /\ fb.give.pc = "receipt"
    /\ \/ fb' = [fb EXCEPT !.give.pc = "done",
                            !.give.result.error = "waitForTransactionReceipt failed"]
       \/ \E status \in {"success", "reverted"} :
            fb' = [fb EXCEPT
                     !.give.pc = "done",
                     !.give.receipt = status,
                     !.give.result =
                         IF status = "success"
                         THEN [success |-> TRUE, txHash |-> fb.give.hash, error |-> ""]
                         ELSE [success |-> FALSE, txHash |-> fb.give.hash,
                               error |-> "Transaction reverted"]]
    /\ UNCHANGED <<env, storeVars, regVars, feedbackAuthStore, md>>

\* one giveFeedback call, with every score around the range and every answer
\* of the chain client
InitReputation ==
    /\ env \in IssuerEnvs
    /\ InitCommon
    /\ feedbackAuthStore = [k \in ClientKeys |-> NoStored]
    /\ md = NoMetadata
    /\ \E agentId \in {"7", "8"}, score \in {-1, 0, 50, 100, 101},
          network \in {"base-sepolia", "solana"} :
         fb = [NoFeedback EXCEPT !.give.pc = "give", !.give.agentId = agentId,
                                 !.give.score = score, !.give.network = network]

NextReputation ==
    \/ GiveStart
    \/ GiveWrite
    \/ GiveReceipt

SpecReputation == InitReputation /\ [][NextReputation]_vars

\* the two services side by side: one registerAgent call (for POST /register)
\* and one generateClientFeedbackAuth call, with every error their chain
\* client, signer and store can raise
InitBoundary ==
    /\ env \in IssuerEnvs
    /\ store = NewStore(env.REDIS_URL)
    /\ now = 0
    /\ last = NoEvent
    /\ allFailed = TRUE
    /\ \E address \in {DelegateBase, DelegateSepolia}, network \in {Net(ChainBase), "solana"} :
         req = [p \in Procs |->
                   IF p = 1
                   THEN [kind |-> "post", agentAddress |-> AgentMixed,
                         authorization |-> [chainId |-> ChainBase, address |-> address,
                                            nonce |-> 0],
                         network |-> network, held |-> NULL]
                   ELSE NoRequest]
    /\ pc = [p \in Procs |-> IF p = 1 THEN "raEnter" ELSE "idle"]
    /\ res = [p \in Procs |-> NoResult]
    /\ out = [p \in Procs |-> NoOutcome]
    /\ calls = [p \in Procs |-> <<>>]
    /\ sent = [p \in Procs |-> <<>>]
    /\ nextAgentId = 1
    /\ feedbackAuthStore = [k \in ClientKeys |-> NoStored]
    /\ md = NoMetadata
    /\ \E a \in ClientArgs :
         /\ a.agentId = "7" /\ a.clientAddress = ClientMixed
         /\ fb = [NoFeedback EXCEPT !.call =
                    [c \in Callers |->
                        IF c = 1 THEN [NoCall EXCEPT !.pc = "gcfa", !.kind = "client",
                                                     !.args = a]
                        ELSE NoCall]]

NextBoundary ==
    \/ \E p \in Procs : RaEnter(p)
    \/ \E p \in Procs : RaNonce(p)
    \/ \E p \in Procs : RaSend(p)
    \/ \E p \in Procs : RaReceipt(p)
    \/ \E p \in Procs : PostFinish(p)
    \/ \E c \in Callers : GcfaStart(c)
    \/ \E c \in Callers : GcfaChainId(c)
    \/ \E c \in Callers : GcfaOwnerOf(c)
    \/ \E c \in Callers : GfaEncode(c)
    \/ \E c \in Callers : GfaRemote(c)
    \/ \E c \in Callers : GcfaStore(c)

SpecBoundary == InitBoundary /\ [][NextBoundary]_vars

----------------------------------------------------------------------------
(* Properties *)

Key(p) == toLowerCase(req[p].agentAddress)
Started(p) == req[p].kind # "none"
ConfiguredDelegate(p) == getDelegateContractAddress(env, req[p].authorization.chainId)
Registry(p) == identityRegistryAddress(env, req[p].authorization.chainId)

\* registerAgent has been entered by p and has got past its delegate check,
\* or has returned
PastEnter(p) == pc[p] \in {"raNonce", "raSend", "raReceipt", "finish"}
               \/ (pc[p] = "done" /\ res[p] # NoResult)

EqualIgnoringCase(a, b) ==
    /\ Len(a) = Len(b)
    /\ \A i \in 1..Len(a) : LowerChar(a[i]) = LowerChar(b[i])

\* a request that asks for a registration: it names the agent and carries an
\* authorization
Attempt(p) ==
    Started(p) /\ req[p].agentAddress # NoAddress /\ req[p].authorization # NoAuth

\* C1: a registration attempt (by the settlement hook or by POST /register) that
\* starts when the ledger already holds an agent id for its address submits no
\* transaction and, once finished, has yielded that id.
C1_NoOpOnceHeld ==
    \A p \in Procs :
        (Attempt(p) /\ req[p].held # NULL) =>
            /\ sent[p] = <<>>
            /\ pc[p] = "done" => out[p].agentId = req[p].held

\* C2: the hook's ledger read and its submission are never held back by another
\* hook for the same address: while one hook is between its read of "absent"
\* and its write, a second hook can still read "absent" and go on, and a hook
\* that has reached its submission can submit.
C2_NoGuardOnLedger ==
    \A p \in Procs : \A q \in Procs \ {p} :
        ( /\ req[p].kind = "hook" /\ req[q].kind = "hook"
          /\ req[p].agentAddress = req[q].agentAddress
          /\ pc[p] \in {"raEnter", "raNonce", "raSend", "raReceipt", "finish"}
          /\ store.redis[Key(q)].value = NULL
          /\ store.mem[Key(q)].value = NULL ) =>
            /\ (pc[q] = "hookGet" /\ req[q].authorization # NoAuth) =>
                   ENABLED (HookGet(q) /\ pc'[q] = "raEnter")
            /\ pc[q] = "raSend" => ENABLED (RaSend(q) /\ sent'[q] # <<>>)

\* C2 witness: two hooks for one address have both submitted a transaction and
\* neither has written the ledger yet.
C2_BothSubmitted ==
    \E p \in Procs : \E q \in Procs \ {p} :
        /\ req[p].kind = "hook" /\ req[q].kind = "hook"
        /\ req[p].agentAddress = req[q].agentAddress
        /\ req[p].held = NULL /\ req[q].held = NULL
        /\ pc[p] = "raReceipt" /\ pc[q] = "raReceipt"
        /\ Len(sent[p]) = 1 /\ Len(sent[q]) = 1
        /\ LedgerValue(store, Key(p)) = NULL

\* C3: once the ledger holds an agent id for an address, no step changes it.
C3_LedgerEntryNeverChanges ==
    [][\A k \in StoreKeys :
          LedgerValue(store, k) # NULL => LedgerValue(store', k) = LedgerValue(store, k)]_vars

\* the authorization of p names another address than the delegate configured
\* for its chain
MismatchInput(r, e) ==
    LET d == getDelegateContractAddress(e, r.authorization.chainId) IN
    /\ r.kind # "none"
    /\ r.authorization # NoAuth
    /\ d # NoAddress
    /\ ~EqualIgnoringCase(r.authorization.address, d)

\* C4: every step of a request whose authorization names another address than
\* the configured delegate leaves the ledger as it is, reads no transaction
\* count and sends nothing; its registerAgent call ends at once in a
\* failure, the mismatch failure unless the network is one the chain lookup
\* does not resolve.
C4_MismatchStopsBeforeChain ==
    [][\A p \in Procs :
          (pc'[p] # pc[p] /\ MismatchInput(req'[p], env)) =>
              /\ store' = store
              /\ calls'[p] = <<>>
              /\ sent'[p] = <<>>
              /\ pc[p] = "raEnter" =>
                     /\ pc'[p] = "finish"
                     /\ ~res'[p].success
                     /\ \/ res'[p].error.kind = "mismatch"
                        \/ /\ res'[p].error.kind = "unsupported"
                           /\ 0 \in mapX402NetworkToChain(NetworkOf(req[p]))]_vars

\* C4 witness: a mismatching request has finished without any chain call.
C4_MismatchFinished ==
    \E p \in Procs :
        /\ MismatchInput(req[p], env)
        /\ pc[p] = "done"
        /\ res[p].error.kind = "mismatch"
        /\ calls[p] = <<>>

\* C5: with a delegate configured for the authorization's chain, the delegate
\* check lets the call go on exactly when the authorization's address equals it
\* ignoring letter case; otherwise the result is the failure naming the expected
\* and the submitted address.
C5_DelegateCheckIgnoresCase ==
    \A p \in Procs :
        ( /\ Started(p) /\ PastEnter(p)
          /\ res[p].error.kind \notin {"unsupported", "noDelegate"} ) =>
            LET d == ConfiguredDelegate(p)
                a == req[p].authorization.address
            IN  IF EqualIgnoringCase(a, d)
                THEN res[p].error.kind # "mismatch"
                ELSE /\ ~res[p].success
                     /\ res[p].error =
                            [kind |-> "mismatch", expected |-> d, got |-> a,
                             chainId |-> req[p].authorization.chainId]

\* C5 witness: an address that differs from the delegate in letter case only
\* has been accepted.
C5_CaseVariantAccepted ==
    \E p \in Procs :
        /\ pc[p] = "raNonce"
        /\ req[p].authorization.address # ConfiguredDelegate(p)
        /\ EqualIgnoringCase(req[p].authorization.address, ConfiguredDelegate(p))

\* C6: a registration whose receipt is reverted never ends in success.
C6_RevertedIsFailure ==
    \A p \in Procs : res[p].status = "reverted" => ~res[p].success

\* C7: a confirmed transaction from whose logs no agent id is decoded still
\* gives success with the transaction hash, and no agent id.
C7_SuccessWithoutAgentId ==
    \A p \in Procs :
        (res[p].status = "success" /\ res[p].agentId = NULL) =>
            /\ res[p].success
            /\ res[p].txHash = p
            /\ res[p].error = NoError

\* C7 witness: such a result has been returned for a transaction that was sent.
C7_ConfirmedNoId ==
    \E p \in Procs :
        /\ pc[p] = "finish"
        /\ Len(sent[p]) = 1
        /\ res[p].status = "success"
        /\ res[p].agentId = NULL
        /\ res[p].success

\* C8: every agent id in a result was decoded from a log emitted by the
\* configured identity registry.
C8_AgentIdFromRegistryLog ==
    \A p \in Procs :
        res[p].agentId # NULL => EqualIgnoringCase(res[p].from, Registry(p))

\* C9: while every call to the durable backend has failed, no store operation
\* throws and a get right after set(key, v) answers v.
C9_FallbackServesJustSet ==
    (env.REDIS_URL # NULL /\ allFailed) =>
        /\ ~last.threw
        /\ (last.op = "get" /\ last.justSet # NULL) => last.ret = last.justSet

\* C9 witness: with the backend in use and failing, a get right after a set
\* has answered the value from memory.
C9_GetAfterSetServed ==
    /\ env.REDIS_URL # NULL
    /\ allFailed
    /\ store.useRedis
    /\ last.op = "get"
    /\ last.mem
    /\ last.justSet # NULL
    /\ last.ret = last.justSet

\* C10: a set with a TTL that memory serves writes the entry with expiry
\* now + ttl * 1000; a get that memory serves answers an entry with an expiry
\* as long as the expiry is not before now, and otherwise answers absent and
\* removes the entry.
C10_TtlInMemory ==
    /\ (last.op = "set" /\ last.mem /\ last.ttl # 0) =>
           store.mem[last.key] =
               [value |-> last.val, expiresAt |-> now + last.ttl * 1000]
    /\ (last.op = "get" /\ last.mem /\ last.entry.value # NULL
            /\ last.entry.expiresAt # 0) =>
           IF last.entry.expiresAt < now
           THEN last.ret = NULL /\ store.mem[last.key] = NoEntry
           ELSE last.ret = last.entry.value

\* C10 witness: an entry whose expiry passed a second ago (set with ttl = 1 s,
\* read 2 s later) has been answered as absent and removed.
C10_ExpiredReadAbsent ==
    /\ last.op = "get"
    /\ last.mem
    /\ last.entry.value # NULL
    /\ last.entry.expiresAt = now - 1000
    /\ last.ret = NULL
    /\ store.mem[last.key] = NoEntry

\* C30: POST /register answers a success status whenever registerAgent returned
\* success, also when no agent id was decoded, and an error status only when
\* registerAgent returned failure.
C30_PostStatusFollowsSuccess ==
    \A p \in Procs :
        (req[p].kind = "post" /\ pc[p] = "done") =>
            /\ res[p].success => out[p].status = 200
            /\ out[p].status # 200 => ~res[p].success

\* C28: whichever backend calls fail, a get of k right after set(k, v) has
\* returned (no set or delete of k in between, no time passed) answers v, never
\* absent and never an older value.
C28_GetAfterSetAnswersValue ==
    (last.op = "get" /\ last.justSet # NULL) => last.ret = last.justSet

\* C29: whichever backend calls fail, a get right after delete(k) has returned
\* answers absent and a has answers false; a value written earlier to the
\* in-memory fallback does not reappear.
C29_AbsentAfterDelete ==
    [][(last.op = "delete" /\ last'.key = last.key)
          => /\ last'.op = "get" => last'.ret = NULL
             /\ last'.op = "has" => last'.ret = "false"]_vars

----------------------------------------------------------------------------
(* Metadata encoding *)

\* C19: a value that does not start with 0x is encoded so that hex-decoding its
\* metadataValue gives the value back; a value that starts with 0x is passed
\* unchanged
C19_MetadataRoundTrip ==
    /\ (md.stage = "read" /\ ~startsWith0x(md.value)) => md.read = md.value
    /\ (md.stage \in {"encoded", "called", "read"} /\ md.metadata = "entries"
           /\ startsWith0x(md.value))
          => md.metadataValue = md.value
    /\ (md.stage \in {"encoded", "called", "read"} /\ md.metadata = "entries"
           /\ ~startsWith0x(md.value))
          => /\ startsWith0x(md.metadataValue)
             /\ SubSeq(md.metadataValue, 3, Len(md.metadataValue))
                   = toHex(BufferFrom(md.value))

\* a three-character value with a multi-byte character has been encoded and read
C19_Witness ==
    /\ md.stage = "read"
    /\ Len(md.value) = 3
    /\ \E i \in 1..3 : md.value[i] > 127
    /\ Len(md.metadataValue) > 2 + 2 * Len(md.value)

----------------------------------------------------------------------------
(* Registry resolution and submission *)

\* C16: a registration for a chain id with no built-in registry default, with no
\* override configured, submits nothing and does not succeed: no other chain's
\* registry stands in for the missing one.
C16_UnknownChainIsConfigurationError ==
    \A p \in Procs :
        (/\ Started(p)
         /\ ~HasRegistryDefault(req[p].authorization.chainId)
         /\ env.ERC8004_IDENTITY_REGISTRY_ADDRESS = NoAddress) =>
            /\ sent[p] = <<>>
            /\ ~res[p].success

\* C17: one call of registerAgent submits at most one transaction, and after a
\* failed send, a reverted transaction or a failed wait for the receipt it has
\* returned a failure, with nothing submitted again.
C17_NoResubmissionFailureReturned ==
    \A p \in Procs :
        /\ Len(sent[p]) <= 1
        /\ (/\ pc[p] \in {"finish", "done"}
            /\ \E i \in DOMAIN calls[p] : calls[p][i] = "sendTransaction"
            /\ \/ res[p].error.kind = "chain"
               \/ res[p].status = "reverted") =>
              /\ ~res[p].success
              /\ Len(calls[p]) <= 3

\* C18: every submitted transaction goes to the agent's own address and carries
\* exactly the one authorization of the request.
C18_RecipientAndAuthorization ==
    \A p \in Procs :
        \A i \in DOMAIN sent[p] :
            /\ sent[p][i].to = req[p].agentAddress
            /\ sent[p][i].authorizationList = <<req[p].authorization>>

\* C18 witness: a transaction has been submitted for a mixed-case agent address
\* with an authorization that names another address (the delegate).
C18_Witness ==
    \E p \in Procs :
        /\ Len(sent[p]) = 1
        /\ req[p].agentAddress = AgentMixed
        /\ req[p].authorization.address # req[p].agentAddress
        /\ sent[p][1].to = AgentMixed

----------------------------------------------------------------------------
(* The order of a settlement-triggered registration *)

\* the steps a hook can take, each a pair of positions
HookOrder ==
    {<<"hookGet", "raEnter">>, <<"hookGet", "done">>,
     <<"raEnter", "raNonce">>, <<"raEnter", "finish">>,
     <<"raNonce", "raSend">>, <<"raNonce", "finish">>,
     <<"raSend", "raReceipt">>, <<"raSend", "finish">>,
     <<"raReceipt", "finish">>, <<"finish", "done">>}

AllChainCalls == <<"getTransactionCount", "sendTransaction", "waitForTransactionReceipt">>

\* C20: a settlement-triggered registration reads the ledger first, checks the
\* delegate before it submits, decodes the receipt after the submission and
\* writes the ledger last; it writes only after a confirmed receipt from which an
\* agent id was decoded, never after a failed registration.
C20_HookStepOrder ==
    [][\A p \in Procs :
        req[p].kind = "hook" =>
            /\ pc'[p] # pc[p] => <<pc[p], pc'[p]>> \in HookOrder
            /\ pc[p] = "hookGet" => (calls[p] = <<>> /\ sent[p] = <<>> /\ res[p] = NoResult)
            /\ sent'[p] # sent[p] =>
                  /\ pc[p] = "raSend"
                  /\ DelegateOk(req[p].authorization, ConfiguredDelegate(p))
                  /\ calls[p] = <<"getTransactionCount">>
            /\ res'[p].status # res[p].status =>
                  /\ pc[p] = "raReceipt"
                  /\ Len(sent[p]) = 1
            /\ (\/ LedgerValue(store', Key(p)) # LedgerValue(store, Key(p))
                \/ out'[p].what = "stored" /\ out[p].what # "stored") =>
                  /\ pc[p] = "finish"
                  /\ res[p].success
                  /\ res[p].status = "success"
                  /\ res[p].agentId # NULL
                  /\ calls[p] = AllChainCalls
                  /\ Len(sent[p]) = 1]_vars

\* C20 witness: a hook has gone through all the steps and written the ledger.
C20_Witness ==
    \E p \in Procs :
        /\ req[p].kind = "hook"
        /\ pc[p] = "done"
        /\ out[p].what = "stored"
        /\ calls[p] = AllChainCalls
        /\ LedgerValue(store, Key(p)) = res[p].agentId

----------------------------------------------------------------------------
(* The feedback-token issuer *)

Finished(c) == Call(c).pc = "done"
ReturnedToken(c) == Finished(c) /\ Call(c).result = "returned"

\* C11: with a remote signer that cannot be reached or answers badly the issuer
\* signs locally; a returned token always ends in a signature, and a call with
\* no usable signer fails.
C11_TokenAlwaysSigned ==
    \A c \in Callers :
        /\ ReturnedToken(c) =>
              /\ Call(c).signature # <<>>
              /\ Call(c).token = Call(c).struct \o Call(c).signature
        /\ (ReturnedToken(c) /\ Call(c).via = "fallback") =>
              Call(c).signature = sign(Call(c).args.agentOwnerPrivateKey,
                                       eip191Hash(Call(c).struct))
        /\ (Finished(c) /\ Call(c).via \in {"none", "fallback"}
               /\ AddressOfKey(Call(c).args.agentOwnerPrivateKey) = NoAddress) =>
              Call(c).result = "threw"

\* the two calls were signed by the same signer
SameSigner(c, d) ==
    /\ Len(Call(c).signature) = 3
    /\ Len(Call(d).signature) = 3
    /\ Call(c).signature[1].key = Call(d).signature[1].key

\* C12: two calls with identical arguments and an identical signer return the
\* same bytes, also when expiry and index limit are left at their defaults.
C12_SameArgumentsSameToken ==
    \A c, d \in Callers :
        (/\ ReturnedToken(c) /\ ReturnedToken(d)
         /\ Call(c).args = Call(d).args
         /\ SameSigner(c, d)) =>
            Call(c).token = Call(d).token

\* C13: a returned token is the seven fields in the order agentId,
\* clientAddress, indexLimit, expiry, chainId, identityRegistry, signerAddress,
\* then the signature, and is 65 bytes longer than the struct, whoever signed.
C13_StructThenSignature65 ==
    \A c \in Callers :
        ReturnedToken(c) =>
            LET a == Call(c).args
                t == Call(c).token
            IN  /\ Len(t) >= 7
                /\ t[1] = Word("uint256", BigInt(a.agentId))
                /\ t[2] = Word("address", a.clientAddress)
                /\ t[3] = Word("uint64", indexLimitOf(a.indexLimit))
                /\ t[4].type = "uint256"
                /\ t[5] = Word("uint256", a.chainId)
                /\ t[6] = Word("address", env.ERC8004_IDENTITY_REGISTRY_ADDRESS)
                /\ t[7] = Word("address", a.agentOwnerAddress)
                /\ SubSeq(t, 8, Len(t)) = Call(c).signature
                /\ ByteLength(t) = ByteLength(Call(c).struct) + SignatureBytes

----------------------------------------------------------------------------
(* Issuance for a client and the token store *)

\* the issuances caller c has stored
IssuedBy(c) == {i \in DOMAIN fb.issued : fb.issued[i].caller = c}

\* C14: a token that generateClientFeedbackAuth stored names as its signer
\* address the owner that ownerOf reported in the same call; a call that failed
\* (as it does when ownerOf fails) has no token and has stored nothing.
C14_SignerIsReportedOwner ==
    /\ \A i \in DOMAIN fb.issued :
          LET c == fb.issued[i].caller
              t == fb.issued[i].stored.feedbackAuth
          IN  /\ Call(c).args.agentOwnerAddress \in {OwnerA, OwnerB}
              /\ Len(t) >= 7
              /\ t[7] = Word("address", Call(c).args.agentOwnerAddress)
    /\ \A k \in ClientKeys :
          feedbackAuthStore[k] # NoStored =>
              \E i \in DOMAIN fb.issued : fb.issued[i].stored = feedbackAuthStore[k]
    /\ \A c \in Callers :
          (Finished(c) /\ Call(c).result = "failure") =>
              /\ Call(c).token = <<>>
              /\ IssuedBy(c) = {}

\* C14 witness: one call stored a token that names the reported owner, the other
\* call failed at ownerOf, and the store holds only the first call's token.
C14_Witness ==
    \E c, d \in Callers :
        /\ Call(c).result = "success"
        /\ Call(c).args.agentOwnerAddress = OwnerB
        /\ feedbackAuthStore[toLowerCase(Call(c).args.clientAddress)].feedbackAuth[7]
              = Word("address", OwnerB)
        /\ Finished(d) /\ Call(d).result = "failure"
        /\ Call(d).args.chainId # 0
        /\ Call(d).args.agentOwnerAddress = NoAddress
        /\ Len(fb.issued) = 1

\* the token issued last for a key of the store
RECURSIVE LastIssued(_, _)
LastIssued(k, issued) ==
    IF issued = <<>> THEN NoStored
    ELSE IF issued[Len(issued)].key = k THEN issued[Len(issued)].stored
         ELSE LastIssued(k, SubSeq(issued, 1, Len(issued) - 1))

\* what GET /getFeedbackAuth is to answer for a client address
Expected(clientAddress) == LastIssued(toLowerCase(clientAddress), fb.issued)

\* C15: tokens are kept under the lowercase client address only, each key holds
\* the token issued last for it, and a lookup with the address in any letter
\* case answers that token.
C15_LookupAnswersLatest ==
    /\ [](\A k \in ClientKeys :
            /\ k # toLowerCase(k) => feedbackAuthStore[k] = NoStored
            /\ k = toLowerCase(k) => feedbackAuthStore[k] = LastIssued(k, fb.issued))
    /\ [][fb'.lookup # fb.lookup =>
            LET l == fb'.lookup IN
            \/ l.status = 400 /\ l.clientAddress = NoAddress
            \/ l.status = 404 /\ Expected(l.clientAddress) = NoStored
            \/ /\ l.status = 200
               /\ Expected(l.clientAddress) # NoStored
               /\ [agentId |-> l.agentId, feedbackAuth |-> l.feedbackAuth]
                     = Expected(l.clientAddress)]_vars

\* C15 witness: two tokens were issued for the same client under different
\* spellings of its address, and a lookup with a mixed-case spelling answered
\* the second one.
C15_Witness ==
    /\ Len(fb.issued) = 2
    /\ fb.issued[1].key = fb.issued[2].key
    /\ fb.issued[1].stored # fb.issued[2].stored
    /\ Call(fb.issued[1].caller).args.clientAddress
          # Call(fb.issued[2].caller).args.clientAddress
    /\ fb.lookup.status = 200
    /\ fb.lookup.clientAddress = ClientMixed
    /\ fb.lookup.feedbackAuth = fb.issued[2].stored.feedbackAuth
    /\ fb.lookup.agentId = fb.issued[2].stored.agentId

----------------------------------------------------------------------------
(* The chain a registration works on *)

\* C21: with no registry override configured, the registry named in a submitted
\* registration is the built-in default of the authorization's chain id,
\* whatever ERC8004_NETWORK is set to.
C21_RegistryOfAuthorizationChain ==
    \A p \in Procs :
        \A i \in DOMAIN sent[p] :
            (/\ env.ERC8004_IDENTITY_REGISTRY_ADDRESS = NoAddress
             /\ HasRegistryDefault(req[p].authorization.chainId)) =>
                sent[p][i].registry =
                    getDefaultErc8004IdentityRegistry(req[p].authorization.chainId)

\* the chain a registration is to work on: the hint's when there is a hint,
\* the authorization's otherwise
OperatingChain(p) ==
    IF req[p].network # NULL
    THEN ClientChain(req[p])
    ELSE req[p].authorization.chainId

\* C22: a registration that has submitted its transaction works on one chain,
\* the hint's when a hint was given and the authorization's otherwise: the
\* clients' chain, the RPC endpoint and the delegate lookup all are of that chain.
C22_OneChainHintFirst ==
    \A p \in Procs :
        Len(sent[p]) = 1 =>
            /\ ClientChain(req[p]) = OperatingChain(p)
            /\ DelegateLookupChain(req[p]) = OperatingChain(p)
            /\ getErc8004RpcUrl(req[p].authorization.chainId) = OperatingChain(p)

\* the transaction count read from the chain differs from the authorization's
\* nonce
NonceDiffers(p) ==
    /\ \E i \in DOMAIN calls[p] : calls[p][i] = "getTransactionCount"
    /\ getTransactionCount(req[p].agentAddress) # req[p].authorization.nonce

\* C23: a transaction count that differs from the authorization's nonce does
\* not stop a registration: a call that has read the count goes on to submit,
\* and only an error of the chain client ends it before the receipt.
C23_NonceDifferenceProceeds ==
    \A p \in Procs :
        /\ NonceDiffers(p) =>
              /\ pc[p] \in {"raSend", "raReceipt", "finish", "done"}
              /\ pc[p] = "raReceipt" => Len(sent[p]) = 1
              /\ res[p].error.kind # "nonce"
        /\ (pc[p] \in {"finish", "done"} /\ calls[p] # <<>>) =>
              \/ res[p].error.kind = "chain"
              \/ /\ res[p].error = NoError
                 /\ calls[p] = AllChainCalls
                 /\ Len(sent[p]) = 1

\* C23 witness: the count differed and the transaction has been submitted.
C23_Witness ==
    \E p \in Procs :
        /\ NonceDiffers(p)
        /\ pc[p] = "raReceipt"
        /\ Len(sent[p]) = 1
        /\ calls[p] = <<"getTransactionCount", "sendTransaction">>

----------------------------------------------------------------------------
(* The encoded call *)

\* C24: the call has three arguments when a non-empty metadata list is given
\* (the tokenURI, or an empty string for a missing one, and the entries), two
\* when only a non-empty tokenURI is given, and one otherwise.
C24_OverloadBySuppliedArguments ==
    md.stage \in {"called", "read"} =>
        LET registry == ERC8004_IDENTITY_REGISTRY_ADDRESS(env) IN
        /\ md.metadata = "entries" =>
              /\ Len(md.data) = 3
              /\ md.data[1] = registry
              /\ md.data[2] = (IF md.tokenURI = NULL THEN "" ELSE md.tokenURI)
              /\ md.data[3] = <<[metadataKey |-> "k",
                                 metadataValue |-> metadataValue(md.value)]>>
        /\ (md.metadata # "entries" /\ md.tokenURI = "ipfs://x") =>
              md.data = <<registry, "ipfs://x">>
        /\ (md.metadata # "entries" /\ md.tokenURI \in {NULL, ""}) =>
              md.data = <<registry>>

\* C24 witness: a call with a tokenURI and a metadata entry has been encoded.
C24_Witness ==
    /\ md.stage = "called"
    /\ md.metadata = "entries"
    /\ md.tokenURI = "ipfs://x"
    /\ Len(md.value) = 2
    /\ Len(md.data) = 3

----------------------------------------------------------------------------
(* A chain without a delegate *)

\* nothing names a delegate for the chain of the request's authorization
NoDelegateConfigured(p) ==
    /\ Started(p)
    /\ req[p].authorization # NoAuth
    /\ req[p].authorization.chainId \notin DOMAIN DELEGATE_CONTRACT_DEFAULTS
    /\ env.DELEGATE_CONTRACT_ADDRESS = NoAddress

\* C25: with no delegate configured for the authorization's chain id the call
\* makes no chain read or write, and it ends in a failure.
C25_NoDelegateFailsBeforeChain ==
    \A p \in Procs :
        NoDelegateConfigured(p) =>
            /\ calls[p] = <<>>
            /\ sent[p] = <<>>
            /\ pc[p] \notin {"raNonce", "raSend", "raReceipt"}
            /\ pc[p] \in {"finish", "done"} =>
                  /\ ~res[p].success
                  /\ res[p].error.kind \in {"noDelegate", "unsupported"}
                  /\ res[p].error.kind = "unsupported" =>
                        0 \in mapX402NetworkToChain(NetworkOf(req[p]))

\* C25 witness: a call for Base Sepolia, which has no built-in delegate, has
\* returned the failure that no delegate is configured.
C25_Witness ==
    \E p \in Procs :
        /\ NoDelegateConfigured(p)
        /\ req[p].authorization.chainId = ChainBaseSepolia
        /\ pc[p] = "done"
        /\ res[p].error.kind = "noDelegate"
        /\ calls[p] = <<>>

----------------------------------------------------------------------------
(* Results at the service boundary *)

\* the text of the error raised in a client issuance that failed after its
\* configuration checks: by the chain id read, by ownerOf, or by the signer
RaisedIn(c) ==
    IF Call(c).args.chainId = 0 THEN "getChainId failed"
    ELSE IF Call(c).args.agentOwnerAddress = NoAddress THEN "ownerOf reverted"
    ELSE "invalid private key"

\* C26: registerAgent and generateClientFeedbackAuth end in a result with
\* success true or false; an error raised by the chain client, the signer or
\* the store becomes a failure that carries the error's text, never an
\* exception at the caller.
C26_StructuredResults ==
    /\ \A p \in Procs :
          (Started(p) /\ pc[p] \in {"finish", "done"}) =>
              /\ res[p].success <=> res[p].error = NoError
              /\ (calls[p] # <<>> /\ res[p].status = NULL) =>
                    (~res[p].success /\ res[p].error.kind = "chain")
              /\ out[p].what # "threw"
    /\ \A c \in Callers :
          (Call(c).kind = "client" /\ Finished(c)) =>
              /\ Call(c).result \in {"success", "failure"}
              /\ Call(c).result = "success" <=> Call(c).error = NoIssueError
              /\ (Call(c).result = "failure" /\ Call(c).args.chainId # 0) =>
                    Call(c).error.message = RaisedIn(c)
              /\ (Call(c).result = "failure" /\ Call(c).args.chainId = 0) =>
                    Call(c).error.message \in
                        {"Facilitator not configured for ERC-8004",
                         "Facilitator private key not configured",
                         Call(c).args.network, "getChainId failed"}

\* C26 witness: the registration failed on an error of the chain client after
\* its transaction was sent, and the issuance failed on an error of the signer.
C26_Witness ==
    /\ \E p \in Procs :
          /\ pc[p] = "done"
          /\ Len(sent[p]) = 1
          /\ res[p].error.kind = "chain"
          /\ out[p].status = 400
    /\ \E c \in Callers :
          /\ Finished(c)
          /\ Call(c).result = "failure"
          /\ Call(c).args.agentOwnerAddress # NoAddress
          /\ Call(c).error.message = "invalid private key"

\* C27: the remote signing request goes to the origin of the paid resource's
\* URL followed by the path suffix configured as feedbackAuthEndpoint in the
\* payment extension.
C27_RequestToConfiguredEndpoint ==
    LET a == Call(1).args
    IN  (Call(1).pc = "fetch" /\ IsUrl(a.resourceUrl) /\ a.feedbackAuthEndpoint # NULL)
            => Call(1).url = Url(a.resourceUrl.origin, a.feedbackAuthEndpoint)

----------------------------------------------------------------------------
(* Who signs a feedback token *)

\* C31: the key that signs a feedback token is the key of the address in the
\* token's signer_address field (its seventh word), on the remote-signer path
\* and on the local-fallback path alike.
C31_SigningKeyIsSignerAddress ==
    \A i \in DOMAIN fb.issued :
        LET t == fb.issued[i].stored.feedbackAuth
        IN  Len(t) = 10 =>
                toLowerCase(AddressOfKey(t[8].key)) = t[7].value

\* C32: the feedback token issued after a settlement is for the agent that was
\* paid: the agent id used is the ledger entry of the payment's payTo address,
\* and the client in the token is the payer.
C32_TokenForPaidAgent ==
    \A c \in Callers :
        (Call(c).args.x402Version # 0 /\ Call(c).pc \notin {"idle", "paid", "skipped"}) =>
            LET a == Call(c).args
            IN  /\ a.agentId = LedgerValue(store, toLowerCase(a.payTo))
                /\ a.clientAddress = a.from
                /\ Call(c).token # <<>> =>
                      /\ Call(c).token[1] =
                            Word("uint256",
                                 BigInt(LedgerValue(store, toLowerCase(a.payTo))))
                      /\ Call(c).token[2] = Word("address", a.from)

----------------------------------------------------------------------------
(* The settlement and the background registration *)

\* C33: the settlement hook returns without waiting for the registration: once
\* the registration has started the handler is at its answer or past it, the
\* answer can be sent whatever the registration is doing, and the answer sent
\* is the one facilitator.settle decided, whatever the registration's outcome.
C33_SettlementNotHeldByRegistration ==
    /\ pc[1] # "idle" => fb.settle.pc \in {"respond", "responded"}
    /\ fb.settle.pc = "respond" => ENABLED SettleRespond
    /\ fb.settle.pc = "responded" =>
          /\ fb.settle.status = IF fb.settle.settled = "threw" THEN 500 ELSE 200
          /\ fb.settle.settled = "success" => fb.settle.body = "success"
          /\ fb.settle.body = "success" => fb.settle.settled = "success"

\* C33 witness: the settlement has been answered with success while the
\* registration still waits for its receipt.
C33_Witness ==
    /\ fb.settle.pc = "responded"
    /\ fb.settle.status = 200
    /\ fb.settle.body = "success"
    /\ pc[1] = "raReceipt"
    /\ Len(sent[1]) = 1

----------------------------------------------------------------------------
(* The registry call the delegate makes *)

\* C34: for every tokenURI and metadata, the register variant invoked on the
\* identity registry is the one the delegate's three-argument register would
\* choose from the same tokenURI and metadata: non-empty metadata gives
\* register(uri, metadata), otherwise a non-empty uri gives register(uri),
\* otherwise register().
C34_SameVariantEitherWay ==
    md.invoked # <<>> =>
        LET uri == UriChars(md.tokenURI)
            entries == metadataEntries(md.metadata, md.value)
        IN  /\ md.invoked = delegateRegister(<<md.data[1], uri, entries>>)
            /\ md.invoked =
                  IF md.metadata = "entries" THEN <<"register", uri, entries>>
                  ELSE IF md.tokenURI = "ipfs://x" THEN <<"register", uri>>
                  ELSE <<"register">>

\* C34 witness: a call with a tokenURI and no metadata went through the
\* delegate's two-argument register and invoked register(uri).
C34_Witness ==
    /\ md.metadata = "empty"
    /\ md.tokenURI = "ipfs://x"
    /\ Len(md.data) = 2
    /\ md.invoked = <<"register", UriChars("ipfs://x")>>

----------------------------------------------------------------------------
(* giveFeedback *)

\* C35: giveFeedback returns success only when the receipt's status is
\* success, returns failure with the transaction hash when the receipt is
\* reverted, and sends no transaction when the score is outside 0..100.
C35_FeedbackResultFollowsReceipt ==
    /\ fb.give.result.success =>
          (fb.give.receipt = "success" /\ fb.give.result.txHash = fb.give.hash)
    /\ (fb.give.pc = "done" /\ fb.give.receipt = "reverted") =>
          /\ ~fb.give.result.success
          /\ fb.give.result.txHash = fb.give.hash
          /\ fb.give.hash # 0
    /\ (fb.give.pc # "idle" /\ (fb.give.score < 0 \/ fb.give.score > 100)) =>
          /\ fb.give.sent = <<>>
          /\ ~fb.give.result.success
          /\ fb.give.pc \in {"give", "done"}

\* C35 witness: a feedback with a score in range was sent, its receipt was
\* reverted, and the failure returned carries the transaction hash.
C35_Witness ==
    /\ fb.give.pc = "done"
    /\ fb.give.score = 100
    /\ Len(fb.give.sent) = 1
    /\ fb.give.receipt = "reverted"
    /\ ~fb.give.result.success
    /\ fb.give.result.txHash = 2

=============================================================================
